---- MODULE Spec2Model ----
(***************************************************************************)
(* A model of thoth: the GraphQL ThothClient with its retry middleware     *)
(* (thoth-client/src/lib.rs), the export links a work exposes              *)
(* (thoth-app/src/models/work/mod.rs) and the export pipeline those links  *)
(* address, the encoders, the subjects and languages forms of thoth-app,    *)
(* the catalogue box of a work and the thoth command line.                 *)
(***************************************************************************)
EXTENDS Naturals, Integers, Sequences, FiniteSets, TLC

VARIABLES
    client,     \* the ThothClient: graphql_endpoint and the http_client's retry policy
    calls,      \* one record per client call (the state of its future)
    shown,      \* thoth-app: the work on display and the export links rendered for it
    export,     \* the export request in progress and the stages it has run
    encoding,   \* the aggregate an encoder is given and what it produced
    subjects_form,  \* thoth-app: SubjectsFormComponent, its props and its messages
    languages_form, \* thoth-app: LanguagesFormComponent, its props and its messages
    box,        \* thoth-app: the licence icons and status tag of a catalogue box
    cli,        \* the thoth binary: the parsed command line and where main is
    series,     \* thoth-app: SeriesComponent, its props and its messages
    subjects_panel  \* thoth-app: the subjects the subjects form displays

vars ==
    <<client, calls, shown, export, encoding, subjects_form, languages_form, box, cli, series, subjects_panel>>

\* The state outside the client and the export pipeline.
appVars == <<encoding, subjects_form, languages_form, box, cli, series, subjects_panel>>

(***************************************************************************)
(* ThothClient                                                             *)
(***************************************************************************)

\* const MAX_REQUEST_RETRIES: u32 = 5
MAX_REQUEST_RETRIES == 5

\* Safety cap on the attempt counter of one call; the retry policy stops far below it.
MaxAttemptsCap == 9

Calls == {"call_a", "call_b"}

WorkIds == {"w1", "w2"}

\* QueryParameters: the relations requested with a work (all off, or all on).
QueryParametersValues == {"none", "with_all"}

\* The request bodies the five methods build: the query and its variables.
Requests ==
    [method : {"get_work"}, work_id : WorkIds, parameters : QueryParametersValues]
        \cup [method : {"get_works"}, work_id : {"-"}, parameters : QueryParametersValues]
        \cup [method : {"get_work_count", "get_works_last_updated"},
              work_id : {"-"}, parameters : {"-"}]
        \cup [method : {"get_work_last_updated"}, work_id : WorkIds, parameters : {"-"}]

\* What one HTTP attempt can end in: a response of some status class, or a send
\* error (connection refused/reset and timeouts; any other reqwest error).
ResponseStatuses == {"2xx", "4xx", "408_429", "5xx"}

SendErrors == {"connect_or_timeout", "other_error"}

Outcomes == ResponseStatuses \cup SendErrors

\* What the body of a response decodes to, read only by res.json():
\*   data         Response { data: Some(..) } with the entity or a non-empty list
\*   data_empty   Response { data: Some(..) } with an empty list (list queries only)
\*   no_data      Response { data: None }
\*   undecodable  not a Response<ResponseData>
Bodies(method) ==
    {"data", "no_data", "undecodable"}
        \cup (IF method \in {"get_works", "get_works_last_updated"}
              THEN {"data_empty"} ELSE {})

\* ThothClient::new
NewClient(graphql_endpoint) ==
    [graphql_endpoint |-> graphql_endpoint, max_n_retries |-> MAX_REQUEST_RETRIES]

NoRequest == [method |-> "-", work_id |-> "-", parameters |-> "-"]

IdleCall ==
    [pc |-> "idle", request |-> NoRequest, n_past_retries |-> 0, sent |-> 0,
     received |-> 0, last |-> "-", body |-> "-", result |-> "-",
     dropped |-> FALSE, sent_at_drop |-> 0]

\* RetryTransientMiddleware's default classification of an attempt's outcome.
Retryable_client_errors_transient(outcome) ==
    CASE outcome \in {"5xx", "408_429", "4xx", "connect_or_timeout"} -> "Transient"
      [] outcome = "2xx" -> "Success"
      [] OTHER -> "Fatal"

Retryable(outcome) ==
    CASE outcome = "5xx" -> "Transient"
      [] outcome = "408_429" -> "Transient"
      [] outcome = "connect_or_timeout" -> "Transient"
      [] outcome = "2xx" -> "Success"
      [] OTHER -> "Fatal"

\* The retry counter the middleware consults for call c: local to that request.
PastRetriesShared(c) ==
    LET RECURSIVE Sum(_)
        Sum(S) == IF S = {} THEN 0
                  ELSE LET x == CHOOSE y \in S : TRUE
                       IN calls[x].n_past_retries + Sum(S \ {x})
    IN Sum(Calls)

PastRetries(c) == calls[c].n_past_retries

\* ExponentialBackoff::should_retry as built by build_with_max_retries.
should_retry_once(n_past_retries) == n_past_retries < 1

should_retry_unbounded(n_past_retries) == TRUE

should_retry(n_past_retries) == n_past_retries < client.max_n_retries

\* The match on response_body.data that ends each method.
match_data_always_ok(method, body) ==
    IF body = "undecodable" THEN "RequestError" ELSE "Ok"

match_data(method, body) ==
    CASE body = "undecodable" -> "RequestError"
      [] body = "no_data" -> "EntityNotFound"
      [] body = "data_empty" ->
            IF method = "get_works_last_updated" THEN "EntityNotFound" ELSE "Ok"
      [] OTHER -> "Ok"

\* A future makes progress only while its caller polls it: once the caller has
\* dropped it, nothing of the call runs again.
Polled_detached(c) == TRUE

Polled(c) == ~calls[c].dropped

\* A method is called: it builds its request body and calls post_request.
StartCall(c) ==
    /\ calls[c].pc = "idle"
    /\ \E r \in Requests :
        calls' = [calls EXCEPT ![c] = [IdleCall EXCEPT !.pc = "send", !.request = r]]
    /\ UNCHANGED <<client, shown, export, appVars>>

\* The middleware sends one HTTP attempt to graphql_endpoint.
SendAttempt(c) ==
    /\ calls[c].pc = "send"
    /\ Polled(c)
    /\ calls[c].sent < MaxAttemptsCap
    /\ calls' = [calls EXCEPT ![c].pc = "in_flight", ![c].sent = @ + 1]
    /\ UNCHANGED <<client, shown, export, appVars>>

\* The attempt ends; the middleware retries a transient outcome while the policy
\* allows it, and hands any other outcome (or the last transient one) to the method.
AttemptEnds(c) ==
    /\ calls[c].pc = "in_flight"
    /\ Polled(c)
    /\ \E o \in Outcomes :
        LET got == [calls[c] EXCEPT !.received = @ + 1, !.last = o]
        IN calls' = [calls EXCEPT ![c] =
              IF Retryable(o) = "Transient" /\ should_retry(PastRetries(c))
              THEN [got EXCEPT !.pc = "send", !.n_past_retries = @ + 1]
              ELSE IF o \in SendErrors
              THEN [got EXCEPT !.pc = "done", !.result = "RequestError"]
              ELSE [got EXCEPT !.pc = "json"]]
    /\ UNCHANGED <<client, shown, export, appVars>>

\* res.json().await? and the match on response_body.data.
DecodeResponse(c) ==
    /\ calls[c].pc = "json"
    /\ Polled(c)
    /\ \E b \in Bodies(calls[c].request.method) :
        calls' = [calls EXCEPT ![c].pc = "done", ![c].body = b,
                               ![c].result = match_data(calls[c].request.method, b)]
    /\ UNCHANGED <<client, shown, export, appVars>>

\* The caller drops the future of a call that has not returned yet.
DropFuture(c) ==
    /\ calls[c].pc \in {"send", "in_flight", "json"}
    /\ ~calls[c].dropped
    /\ calls' = [calls EXCEPT ![c].dropped = TRUE, ![c].sent_at_drop = calls[c].sent]
    /\ UNCHANGED <<client, shown, export, appVars>>

ClientNext ==
    \E c \in Calls :
        \/ StartCall(c)
        \/ SendAttempt(c)
        \/ AttemptEnds(c)
        \/ DecodeResponse(c)
        \/ DropFuture(c)

(***************************************************************************)
(* thoth-app: the export links of a work (DisplayWork)                     *)
(***************************************************************************)

\* crate::THOTH_EXPORT_API, the public root URL of the export API.
THOTH_EXPORT_API == "http://localhost:8181"

\* A WorkWithRelations, reduced to the field the links read.
Works == [work_id : WorkIds]

marc21_thoth_endpoint(self) ==
    THOTH_EXPORT_API \o "/specifications/marc21record::thoth/work/" \o self.work_id

marc21markup_thoth_endpoint(self) ==
    THOTH_EXPORT_API \o "/specifications/marc21markup::thoth/work/" \o self.work_id

marc21xml_thoth_endpoint(self) ==
    THOTH_EXPORT_API \o "/specifications/marc21xml::thoth/work/" \o self.work_id

onix_thoth_endpoint(self) ==
    THOTH_EXPORT_API \o "/specifications/onix_3.0::thoth/work/" \o self.work_id

onix_projectmuse_endpoint_misspelt(self) ==
    THOTH_EXPORT_API \o "/specifications/onix_3.0::projectmuse/work/" \o self.work_id

onix_projectmuse_endpoint(self) ==
    THOTH_EXPORT_API \o "/specifications/onix_3.0::project_muse/work/" \o self.work_id

onix_oapen_endpoint(self) ==
    THOTH_EXPORT_API \o "/specifications/onix_3.0::oapen/work/" \o self.work_id

onix_jstor_endpoint_copied(self) ==
    THOTH_EXPORT_API \o "/specifications/onix_3.0::oapen/work/" \o self.work_id

onix_jstor_endpoint(self) ==
    THOTH_EXPORT_API \o "/specifications/onix_3.0::jstor/work/" \o self.work_id

onix_google_books_endpoint(self) ==
    THOTH_EXPORT_API \o "/specifications/onix_3.0::google_books/work/" \o self.work_id

onix_overdrive_endpoint(self) ==
    THOTH_EXPORT_API \o "/specifications/onix_3.0::overdrive/work/" \o self.work_id

onix_ebsco_host_endpoint(self) ==
    THOTH_EXPORT_API \o "/specifications/onix_2.1::ebsco_host/work/" \o self.work_id

onix_proquest_ebrary_endpoint(self) ==
    THOTH_EXPORT_API \o "/specifications/onix_2.1::proquest_ebrary/work/" \o self.work_id

csv_endpoint(self) ==
    THOTH_EXPORT_API \o "/specifications/csv::thoth/work/" \o self.work_id

json_endpoint(self) ==
    THOTH_EXPORT_API \o "/specifications/json::thoth/work/" \o self.work_id

kbart_endpoint(self) ==
    THOTH_EXPORT_API \o "/specifications/kbart::oclc/work/" \o self.work_id

bibtex_endpoint(self) ==
    THOTH_EXPORT_API \o "/specifications/bibtex::thoth/work/" \o self.work_id

doideposit_endpoint(self) ==
    THOTH_EXPORT_API \o "/specifications/doideposit::crossref/work/" \o self.work_id

\* The hrefs of the "Metadata" dropdown of as_catalogue_box, in menu order.
MetadataDropdown(self) ==
    <<onix_thoth_endpoint(self), onix_projectmuse_endpoint(self),
      onix_oapen_endpoint(self), onix_jstor_endpoint(self),
      onix_google_books_endpoint(self), onix_overdrive_endpoint(self),
      onix_ebsco_host_endpoint(self), onix_proquest_ebrary_endpoint(self),
      csv_endpoint(self), json_endpoint(self), kbart_endpoint(self),
      bibtex_endpoint(self), doideposit_endpoint(self),
      marc21_thoth_endpoint(self), marc21markup_thoth_endpoint(self),
      marc21xml_thoth_endpoint(self)>>

NothingShown == [work_id |-> "-", links |-> <<>>]

\* as_catalogue_box renders a work with its export links.
RenderCatalogueBox ==
    /\ \E w \in Works :
        shown' = [work_id |-> w.work_id, links |-> MetadataDropdown(w)]
    /\ UNCHANGED <<client, calls, export, appVars>>

(***************************************************************************)
(* The export pipeline: Dialect Registry, Request Resolver, Encoder and    *)
(* the Export Coordinator that sequences them.                             *)
(***************************************************************************)

\* The (family, dialect) keys of the registered descriptors.
RegisteredSpecifications ==
    <<<<"onix_3.0", "thoth">>, <<"onix_3.0", "project_muse">>, <<"onix_3.0", "oapen">>,
      <<"onix_3.0", "jstor">>, <<"onix_3.0", "google_books">>, <<"onix_3.0", "overdrive">>,
      <<"onix_2.1", "ebsco_host">>, <<"onix_2.1", "proquest_ebrary">>,
      <<"csv", "thoth">>, <<"json", "thoth">>, <<"kbart", "oclc">>,
      <<"bibtex", "thoth">>, <<"doideposit", "crossref">>,
      <<"marc21record", "thoth">>, <<"marc21markup", "thoth">>,
      <<"marc21xml", "thoth">>>>

\* The content type a family's descriptors carry.
ContentType(family) ==
    CASE family \in {"onix_3.0", "onix_2.1", "marc21xml", "doideposit"} -> "structured-markup"
      [] family \in {"csv", "kbart"} -> "delimited-text"
      [] family = "json" -> "structured-json"
      [] family = "marc21record" -> "bibliographic-record"
      [] OTHER -> "plain-text"

\* The Dialect Registry: one immutable descriptor per registered key.
Registry ==
    [i \in DOMAIN RegisteredSpecifications |->
        [family |-> RegisteredSpecifications[i][1],
         dialect |-> RegisteredSpecifications[i][2],
         content_type |-> ContentType(RegisteredSpecifications[i][1])]]

\* Pairs a request can name: the registered ones and some that are not.
RequestablePairs ==
    {RegisteredSpecifications[i] : i \in DOMAIN RegisteredSpecifications}
        \cup {<<"onix_3.0", "projectmuse">>, <<"onix_3.0", "unknown">>, <<"epub", "thoth">>}

\* resolve(family, dialect) -> DialectDescriptor | UnsupportedDialectError
resolve(family, dialect) ==
    LET hits == {i \in DOMAIN Registry :
                    Registry[i].family = family /\ Registry[i].dialect = dialect}
    IN IF hits = {}
       THEN [kind |-> "UnsupportedDialect", family |-> family, dialect |-> dialect]
       ELSE [kind |-> "descriptor", descriptor |-> Registry[CHOOSE i \in hits : TRUE]]

\* The boundary's route {root}/specifications/{family}::{dialect}/work/{work_id}.
ExportRoute(family, dialect, work_id) ==
    THOTH_EXPORT_API \o "/specifications/" \o family \o "::" \o dialect
        \o "/work/" \o work_id

\* The export requests a URL is routed to (none when it matches no route).
RouteMatches(url) ==
    {r \in {[family |-> p[1], dialect |-> p[2], work_id |-> w] :
                p \in RequestablePairs, w \in WorkIds} :
        ExportRoute(r.family, r.dialect, r.work_id) = url}

\* The order in which the coordinator runs its stages.
StagesRegistryFirst == <<"Registry", "Resolver", "Encoder">>

Stages == <<"Resolver", "Registry", "Encoder">>

\* What the Request Resolver can answer for a work the upstream has.
ResolverAnswers == {"aggregate", "UpstreamUnavailable", "MalformedUpstreamResponse"}

\* What an Encoder can answer.
EncoderAnswers == {"EncodedOutput", "ValidationFailed"}

NoRequestYet == [family |-> "-", dialect |-> "-", work_id |-> "-"]

NoExport ==
    [pc |-> "idle", request |-> NoRequestYet, from_link |-> 0, absent |-> FALSE,
     ran |-> <<>>, result |-> [kind |-> "-"]]

\* The boundary layer hands a request to the coordinator: a link of the work on
\* display is followed, or a request names a pair and a work directly. Whether the
\* upstream has the work is a fact of the environment.
FollowLink ==
    /\ export.pc \in {"idle", "done"}
    /\ \E i \in DOMAIN shown.links, a \in BOOLEAN :
        /\ RouteMatches(shown.links[i]) # {}
        /\ export' = [NoExport EXCEPT !.pc = "running", !.from_link = i, !.absent = a,
                         !.request = CHOOSE r \in RouteMatches(shown.links[i]) : TRUE]
    /\ UNCHANGED <<client, calls, shown, appVars>>

DirectRequest ==
    /\ export.pc \in {"idle", "done"}
    /\ \E p \in RequestablePairs, w \in WorkIds, a \in BOOLEAN :
        export' = [NoExport EXCEPT !.pc = "running", !.absent = a,
                      !.request = [family |-> p[1], dialect |-> p[2], work_id |-> w]]
    /\ UNCHANGED <<client, calls, shown, appVars>>

\* The answer of one stage; anything but "aggregate", "descriptor" and
\* "EncodedOutput" is a failure.
StageAnswers(stage) ==
    CASE stage = "Resolver" ->
            IF export.absent THEN {[kind |-> "NotFound"]}
            ELSE {[kind |-> k] : k \in ResolverAnswers}
      [] stage = "Registry" ->
            {resolve(export.request.family, export.request.dialect)}
      [] OTHER -> {[kind |-> k] : k \in EncoderAnswers}

StageFailed(answer) == answer.kind \notin {"aggregate", "descriptor", "EncodedOutput"}

\* export(request): run the next stage; stop at the first failure, finish after the
\* last stage.
RunStage ==
    /\ export.pc = "running"
    /\ LET stage == Stages[Len(export.ran) + 1]
       IN \E answer \in StageAnswers(stage) :
            export' = [export EXCEPT
                !.ran = Append(@, [stage |-> stage, answer |-> answer]),
                !.result = answer,
                !.pc = IF StageFailed(answer) \/ Len(export.ran) + 1 = Len(Stages)
                       THEN "done" ELSE "running"]
    /\ UNCHANGED <<client, calls, shown, appVars>>

ExportNext ==
    \/ RenderCatalogueBox
    \/ FollowLink
    \/ DirectRequest
    \/ RunStage

(***************************************************************************)
(* Encoders: encode(aggregate, descriptor), one pure function per dialect  *)
(***************************************************************************)

\* How many Contributions an aggregate can carry (ordinals 1..MaxContributions).
MaxContributions == 3

\* The canonical fields a dialect can demand besides the identity.
OptionalFields == {"title", "doi", "publication_date"}

\* A Contribution: its ordinal and its role.
Contribution(o) == [ordinal |-> o, role |-> IF o % 2 = 1 THEN "Author" ELSE "Editor"]

\* The sequences without repetition over S: every storage order of every subset.
InjectiveSeqs(S) ==
    {q \in UNION {[1..n -> S] : n \in 0..Cardinality(S)} :
        \A i, j \in DOMAIN q : i # j => q[i] # q[j]}

\* The canonical aggregates the Resolver can deliver: the identity is always
\* there, any other field may be absent, Contributions are stored in any order.
Aggregates ==
    [work_id : WorkIds,
     fields : {{"work_id"} \cup F : F \in SUBSET OptionalFields},
     contributions : InjectiveSeqs({Contribution(o) : o \in 1..MaxContributions})]

\* The fields an aggregate satisfies: those present, and "author" when at least
\* one Contribution has role Author.
PresentFields(aggregate) ==
    aggregate.fields
        \cup (IF \E i \in DOMAIN aggregate.contributions :
                    aggregate.contributions[i].role = "Author"
              THEN {"author"} ELSE {})

\* The mandatory-field set of a descriptor: the rights-deposit dialect requires a
\* DOI, an Author and a publication date; every other dialect at minimum the
\* title and the identity.
MandatoryFields(descriptor) ==
    IF descriptor.family = "doideposit"
    THEN {"work_id", "doi", "author", "publication_date"}
    ELSE {"work_id", "title"}

\* Stable insertion sort of Contributions by ordinal.
SortByOrdinal_storage_order(contributions) == contributions

RECURSIVE SortByOrdinal(_)
SortByOrdinal(contributions) ==
    IF contributions = <<>> THEN <<>>
    ELSE LET n == Len(contributions)
             sorted == SortByOrdinal(SubSeq(contributions, 1, n - 1))
             x == contributions[n]
             before == SelectSeq(sorted, LAMBDA c : c.ordinal <= x.ordinal)
             after == SelectSeq(sorted, LAMBDA c : c.ordinal > x.ordinal)
         IN before \o <<x>> \o after

\* The fixed order in which a rendering lists the fields.
FieldOrder == <<"work_id", "title", "doi", "publication_date">>

\* The rendered payload: the dialect, the present fields in FieldOrder, then the
\* Contributions by ordinal.
Render(aggregate, descriptor) ==
    LET present == SelectSeq(FieldOrder, LAMBDA f : f \in aggregate.fields)
        byOrdinal == SortByOrdinal(aggregate.contributions)
    IN <<[tag |-> descriptor.family, ordinal |-> 0],
         [tag |-> descriptor.dialect, ordinal |-> 0]>>
        \o [i \in DOMAIN present |-> [tag |-> present[i], ordinal |-> 0]]
        \o [i \in DOMAIN byOrdinal |->
                [tag |-> "contribution", ordinal |-> byOrdinal[i].ordinal]]

\* encode(aggregate, descriptor) -> (bytes, content_type) | ValidationError
encode_partial_output(aggregate, descriptor) ==
    LET missing == MandatoryFields(descriptor) \ PresentFields(aggregate)
    IN [kind |-> IF missing = {} THEN "EncodedOutput" ELSE "ValidationFailed",
        missing_fields |-> missing,
        bytes |-> Render(aggregate, descriptor),
        content_type |-> descriptor.content_type]

encode(aggregate, descriptor) ==
    LET missing == MandatoryFields(descriptor) \ PresentFields(aggregate)
    IN IF missing # {}
       THEN [kind |-> "ValidationFailed", missing_fields |-> missing,
             bytes |-> <<>>, content_type |-> "-"]
       ELSE [kind |-> "EncodedOutput", missing_fields |-> {},
             bytes |-> Render(aggregate, descriptor),
             content_type |-> descriptor.content_type]

NoEncoding ==
    [pc |-> "idle",
     aggregate |-> [work_id |-> "-", fields |-> {}, contributions |-> <<>>],
     descriptor |-> [family |-> "-", dialect |-> "-", content_type |-> "-"],
     output |-> [kind |-> "-", missing_fields |-> {}, bytes |-> <<>>,
                 content_type |-> "-"]]

\* The Resolver hands an aggregate over for encoding.
AggregateResolved ==
    /\ encoding.pc = "idle"
    /\ \E a \in Aggregates :
        encoding' = [NoEncoding EXCEPT !.pc = "fetched", !.aggregate = a]
    /\ UNCHANGED <<client, calls, shown, export, subjects_form, languages_form, box, cli, series, subjects_panel>>

\* The encoder of a registered dialect is run on the aggregate.
Encode ==
    /\ encoding.pc = "fetched"
    /\ \E i \in DOMAIN Registry :
        encoding' = [encoding EXCEPT !.pc = "encoded", !.descriptor = Registry[i],
                        !.output = encode(encoding.aggregate, Registry[i])]
    /\ UNCHANGED <<client, calls, shown, export, subjects_form, languages_form, box, cli, series, subjects_panel>>

\* The output is returned to the boundary layer; the engine keeps nothing of it.
OutputReturned ==
    /\ encoding.pc = "encoded"
    /\ encoding' = NoEncoding
    /\ UNCHANGED <<client, calls, shown, export, subjects_form, languages_form, box, cli, series, subjects_panel>>

EncodeNext ==
    \/ AggregateResolved
    \/ Encode
    \/ OutputReturned


(***************************************************************************)
(* thoth-app: SubjectsFormComponent                                        *)
(* (thoth-app/src/component/subjects_form.rs)                              *)
(*                                                                         *)
(* A text typed in a field is a sequence of characters.  Messages sent     *)
(* with send_message wait in the component's queue, which the scheduler    *)
(* drains before the browser delivers the next event; a request handed to  *)
(* send_future stays pending until the server answers.  The parent         *)
(* component stores every list it receives through update_subjects and     *)
(* hands it back as props.subjects.                                        *)
(***************************************************************************)

\* Requests of the form that may wait for the server at the same time.
MaxPending == 1

\* Subjects the server creates before it refuses further ones.
MaxCreated == 1

SubjectTypes == {"Bic", "Keyword"}

\* What the user types in the subject code field.
CodeTexts == {<<"A">>, <<" ", "A", " ">>}

\* What the user types in the subject ordinal field.
OrdinalTexts ==
    { <<"1">>, <<"+", "1">>, <<"-", "1">>, <<"x">>, <<>>,
      <<"2", "1", "4", "7", "4", "8", "3", "6", "4", "8">> }

I32_MAX == 2147483647

I32_MIN == (-2147483647) - 1

DigitChars == <<"0", "1", "2", "3", "4", "5", "6", "7", "8", "9">>

\* The digits of an i32 after its sign: each step multiplies the
\* accumulator by ten and adds (or, for a negative number, subtracts) the
\* digit, failing on anything but a digit and on leaving the i32 range.
RECURSIVE parse_digits(_, _, _)
parse_digits(text, positive, acc) ==
    IF text = <<>> THEN [ok |-> TRUE, value |-> acc]
    ELSE IF \A i \in DOMAIN DigitChars : DigitChars[i] # Head(text)
    THEN [ok |-> FALSE, value |-> 0]
    ELSE LET d == (CHOOSE i \in DOMAIN DigitChars : DigitChars[i] = Head(text)) - 1 IN
         IF positive
         THEN IF acc > (I32_MAX - d) \div 10 THEN [ok |-> FALSE, value |-> 0]
              ELSE parse_digits(Tail(text), positive, acc * 10 + d)
         ELSE IF acc < (I32_MIN + d + 9) \div 10 THEN [ok |-> FALSE, value |-> 0]
              ELSE parse_digits(Tail(text), positive, acc * 10 - d)

\* str::parse::<i32>: an optional sign and at least one digit.
parse_i32(text) ==
    IF text = <<>> \/ text \in {<<"+">>, <<"-">>} THEN [ok |-> FALSE, value |-> 0]
    ELSE IF Head(text) \in {"+", "-"}
         THEN parse_digits(Tail(text), Head(text) = "+", 0)
         ELSE parse_digits(text, TRUE, 0)

\* ordinal.parse::<i32>().unwrap_or(0)
parse_ordinal(text) ==
    LET parsed == parse_i32(text) IN IF parsed.ok THEN parsed.value ELSE 0

\* str::trim: the text between its first and its last character that is
\* not white space.
trim(text) ==
    LET kept == {i \in DOMAIN text : text[i] # " "} IN
    IF kept = {} THEN <<>>
    ELSE SubSeq(text, CHOOSE i \in kept : \A j \in kept : i <= j,
                      CHOOSE i \in kept : \A j \in kept : j <= i)

\* Subject::default(), the new_subject of a fresh form.
DefaultSubject ==
    [subject_id |-> 0, subject_type |-> "Keyword", subject_code |-> <<>>,
     subject_ordinal |-> 0]

\* A FetchAction; body is the Option in the response (empty: None).
FetchAction(action, body) == [action |-> action, body |-> body]

NotFetching == [state |-> "NotFetching"]

\* Fetch::apply; the body of a response is read by the handler from the
\* action and is not kept.
apply(fetch, fetch_action) == [state |-> fetch_action.action]

Msg(type, arg) == [type |-> type, arg |-> arg]

\* What one call of update did besides changing the component.
NoEffect == [render |-> FALSE, emitted |-> FALSE, notified |-> FALSE]

\* The component after create(), for a work that has one subject:
\* GetSubjectTypes is queued.
NewSubjectsForm ==
    [subjects |-> <<[subject_id |-> 0, subject_type |-> "Keyword",
                     subject_code |-> <<"A">>, subject_ordinal |-> 1]>>,
     subject_types |-> {},
     new_subject |-> DefaultSubject,
     show_add_form |-> FALSE,
     fetch_subject_types |-> NotFetching,
     push_subject |-> NotFetching,
     delete_subject |-> NotFetching,
     queue |-> <<Msg("GetSubjectTypes", "-")>>,
     pending |-> {},
     created |-> 0,
     last |-> NoEffect]

\* The result of a handler: the component, the messages it sent itself,
\* the requests it started, the list it emitted (none: empty) and whether
\* it notified and asked to be rendered.
Handled(form, sent, started, emit, notified, render) ==
    [form |-> form, sent |-> sent, started |-> started, emit |-> emit,
     notified |-> notified, render |-> render]

\* add_form_status, the class of the add form's modal; the two forms
\* define it alike.
add_form_status(form) == IF form.show_add_form THEN "modal is-active" ELSE "modal"

SubjectsToggleAddFormDisplay(form, value) ==
    Handled([form EXCEPT !.show_add_form = value], <<>>, {}, <<>>, FALSE, TRUE)

SetSubjectTypesFetchState(form, fetch_state) ==
    LET fetch == apply(form.fetch_subject_types, fetch_state) IN
    Handled([form EXCEPT !.fetch_subject_types = fetch,
                         !.subject_types =
                             IF fetch.state = "Fetched" THEN SubjectTypes ELSE {}],
            <<>>, {}, <<>>, FALSE, TRUE)

GetSubjectTypes(form) ==
    Handled(form,
            <<Msg("SetSubjectTypesFetchState", FetchAction("Fetching", <<>>))>>,
            {[kind |-> "subject_types", variables |-> DefaultSubject]}, <<>>, FALSE, FALSE)

\* SetSubjectPushState leaving the add form open when the request failed.
SetSubjectPushState_open_on_failure(form, fetch_state) ==
    LET fetch == apply(form.push_subject, fetch_state)
        f == [form EXCEPT !.push_subject = fetch]
        close == <<Msg("ToggleAddFormDisplay", FALSE)>>
    IN  CASE fetch.state \in {"NotFetching", "Fetching"} ->
                Handled(f, <<>>, {}, <<>>, FALSE, FALSE)
          [] fetch.state = "Fetched" /\ fetch_state.body # <<>> ->
                Handled(f, close, {}, <<Append(form.subjects, fetch_state.body[1])>>,
                        FALSE, TRUE)
          [] fetch.state = "Fetched" /\ fetch_state.body = <<>> ->
                Handled(f, close, {}, <<>>, TRUE, FALSE)
          [] fetch.state = "Failed" ->
                Handled(f, <<>>, {}, <<>>, TRUE, FALSE)

SetSubjectPushState(form, fetch_state) ==
    LET fetch == apply(form.push_subject, fetch_state)
        f == [form EXCEPT !.push_subject = fetch]
        close == <<Msg("ToggleAddFormDisplay", FALSE)>>
    IN  CASE fetch.state \in {"NotFetching", "Fetching"} ->
                Handled(f, <<>>, {}, <<>>, FALSE, FALSE)
          [] fetch.state = "Fetched" /\ fetch_state.body # <<>> ->
                Handled(f, close, {}, <<Append(form.subjects, fetch_state.body[1])>>,
                        FALSE, TRUE)
          [] fetch.state = "Fetched" /\ fetch_state.body = <<>> ->
                Handled(f, close, {}, <<>>, TRUE, FALSE)
          [] fetch.state = "Failed" ->
                Handled(f, close, {}, <<>>, TRUE, FALSE)

CreateSubject(form) ==
    Handled([form EXCEPT !.push_subject = NotFetching],
            <<Msg("SetSubjectPushState", FetchAction("Fetching", <<>>))>>,
            {[kind |-> "create_subject",
              variables |-> [form.new_subject EXCEPT !.subject_id = 0]]},
            <<>>, FALSE, FALSE)

\* SetSubjectDeleteState dropping the first subject of the list, whatever
\* the id of the deleted one.
SetSubjectDeleteState_dropping_first(form, fetch_state) ==
    LET fetch == apply(form.delete_subject, fetch_state)
        f == [form EXCEPT !.delete_subject = fetch]
    IN  CASE fetch.state \in {"NotFetching", "Fetching"} ->
                Handled(f, <<>>, {}, <<>>, FALSE, FALSE)
          [] fetch.state = "Fetched" /\ fetch_state.body # <<>> ->
                Handled(f, <<>>, {},
                        <<IF form.subjects = <<>> THEN <<>> ELSE Tail(form.subjects)>>,
                        FALSE, TRUE)
          [] fetch.state = "Fetched" /\ fetch_state.body = <<>> ->
                Handled(f, <<>>, {}, <<>>, TRUE, FALSE)
          [] fetch.state = "Failed" ->
                Handled(f, <<>>, {}, <<>>, TRUE, FALSE)

SetSubjectDeleteState(form, fetch_state) ==
    LET fetch == apply(form.delete_subject, fetch_state)
        f == [form EXCEPT !.delete_subject = fetch]
    IN  CASE fetch.state \in {"NotFetching", "Fetching"} ->
                Handled(f, <<>>, {}, <<>>, FALSE, FALSE)
          [] fetch.state = "Fetched" /\ fetch_state.body # <<>> ->
                Handled(f, <<>>, {},
                        <<SelectSeq(form.subjects,
                                    LAMBDA s : s.subject_id # fetch_state.body[1].subject_id)>>,
                        FALSE, TRUE)
          [] fetch.state = "Fetched" /\ fetch_state.body = <<>> ->
                Handled(f, <<>>, {}, <<>>, TRUE, FALSE)
          [] fetch.state = "Failed" ->
                Handled(f, <<>>, {}, <<>>, TRUE, FALSE)

DeleteSubject(form, subject_id) ==
    Handled([form EXCEPT !.delete_subject = NotFetching],
            <<Msg("SetSubjectDeleteState", FetchAction("Fetching", <<>>))>>,
            {[kind |-> "delete_subject", variables |-> [DefaultSubject EXCEPT !.subject_id = subject_id]]},
            <<>>, FALSE, FALSE)

\* neq_assign: the field is assigned, and the component rendered, only when
\* the value differs.
ChangeSubjectType(form, val) ==
    Handled([form EXCEPT !.new_subject.subject_type = val], <<>>, {}, <<>>, FALSE,
            form.new_subject.subject_type # val)

ChangeCode(form, code) ==
    Handled([form EXCEPT !.new_subject.subject_code = trim(code)], <<>>, {}, <<>>,
            FALSE, form.new_subject.subject_code # trim(code))

\* ChangeOrdinal returning what neq_assign returns: a render whenever the
\* ordinal changed.
ChangeOrdinal_rendering(form, ordinal) ==
    Handled([form EXCEPT !.new_subject.subject_ordinal = parse_ordinal(ordinal)],
            <<>>, {}, <<>>, FALSE,
            form.new_subject.subject_ordinal # parse_ordinal(ordinal))

ChangeOrdinal(form, ordinal) ==
    Handled([form EXCEPT !.new_subject.subject_ordinal = parse_ordinal(ordinal)],
            <<>>, {}, <<>>, FALSE, FALSE)

\* SubjectsFormComponent::update
subjects_update(form, msg) ==
    CASE msg.type = "ToggleAddFormDisplay" -> SubjectsToggleAddFormDisplay(form, msg.arg)
      [] msg.type = "SetSubjectTypesFetchState" -> SetSubjectTypesFetchState(form, msg.arg)
      [] msg.type = "GetSubjectTypes" -> GetSubjectTypes(form)
      [] msg.type = "SetSubjectPushState" -> SetSubjectPushState(form, msg.arg)
      [] msg.type = "CreateSubject" -> CreateSubject(form)
      [] msg.type = "SetSubjectDeleteState" -> SetSubjectDeleteState(form, msg.arg)
      [] msg.type = "DeleteSubject" -> DeleteSubject(form, msg.arg)
      [] msg.type = "ChangeSubjectType" -> ChangeSubjectType(form, msg.arg)
      [] msg.type = "ChangeCode" -> ChangeCode(form, msg.arg)
      [] msg.type = "ChangeOrdinal" -> ChangeOrdinal(form, msg.arg)

\* The component after update(msg) and after the parent has stored the
\* list the handler emitted.
SubjectsAfter(form, msg) ==
    LET h == subjects_update(form, msg) IN
    [h.form EXCEPT
        !.subjects = IF h.emit # <<>> THEN h.emit[1] ELSE h.form.subjects,
        !.queue = h.form.queue \o h.sent,
        !.pending = h.form.pending \cup h.started,
        !.last = [render |-> h.render,
                  emitted |-> h.emit # <<>>, notified |-> h.notified]]

SubjectsOthers == <<client, calls, shown, export, encoding, languages_form, box, cli, series, subjects_panel>>

\* The scheduler runs update on the next message the component sent itself.
SubjectsQueuedMessage ==
    /\ subjects_form.queue # <<>>
    /\ subjects_form' =
           SubjectsAfter([subjects_form EXCEPT !.queue = Tail(subjects_form.queue)],
                         Head(subjects_form.queue))
    /\ UNCHANGED SubjectsOthers

\* A browser event (a click, an input, a completed request) reaches the
\* component once its queue is empty.
SubjectsEvent(msg) ==
    /\ subjects_form' = SubjectsAfter(subjects_form, msg)
    /\ UNCHANGED SubjectsOthers

\* The user opens or closes the add form, or edits one of its fields.
SubjectsUserEdits ==
    /\ subjects_form.queue = <<>>
    /\ \E msg \in {Msg("ToggleAddFormDisplay", value) : value \in BOOLEAN}
                   \cup {Msg("ChangeSubjectType", val) : val \in SubjectTypes}
                   \cup {Msg("ChangeCode", code) : code \in CodeTexts}
                   \cup {Msg("ChangeOrdinal", ordinal) : ordinal \in OrdinalTexts} :
           SubjectsEvent(msg)

\* The requests of the form that wait for the server, the load of the
\* subject types apart.
SubjectsWaiting == {p \in subjects_form.pending : p.kind # "subject_types"}

\* The user submits the add form.
SubjectsUserSubmits ==
    /\ subjects_form.queue = <<>>
    /\ Cardinality(SubjectsWaiting) < MaxPending
    /\ SubjectsEvent(Msg("CreateSubject", "-"))

\* The user removes one of the subjects on display.
SubjectsUserRemoves ==
    /\ subjects_form.queue = <<>>
    /\ Cardinality(SubjectsWaiting) < MaxPending
    /\ \E i \in DOMAIN subjects_form.subjects :
           SubjectsEvent(Msg("DeleteSubject", subjects_form.subjects[i].subject_id))

\* The answers the server may give to a request: the entity, no entity, or
\* a failure.
SubjectsAnswers(p) ==
    CASE p.kind = "subject_types" ->
            {Msg("SetSubjectTypesFetchState", FetchAction(a, <<>>)) : a \in {"Fetched", "Failed"}}
      [] p.kind = "create_subject" ->
            {Msg("SetSubjectPushState", FetchAction(a, <<>>)) : a \in {"Fetched", "Failed"}}
            \cup { Msg("SetSubjectPushState",
                       FetchAction("Fetched",
                           <<[p.variables EXCEPT !.subject_id = subjects_form.created + 1]>>)) :
                   x \in IF subjects_form.created < MaxCreated THEN {1} ELSE {} }
      [] p.kind = "delete_subject" ->
            {Msg("SetSubjectDeleteState", FetchAction(a, <<>>)) : a \in {"Fetched", "Failed"}}
            \cup {Msg("SetSubjectDeleteState",
                      FetchAction("Fetched", <<p.variables>>))}

\* A request's future completes and sends its message.
SubjectsResponse ==
    /\ subjects_form.queue = <<>>
    /\ \E p \in subjects_form.pending : \E msg \in SubjectsAnswers(p) :
           /\ subjects_form' =
                  SubjectsAfter(
                      [subjects_form EXCEPT
                          !.pending = subjects_form.pending \ {p},
                          !.created =
                              IF msg.type = "SetSubjectPushState" /\ msg.arg.body # <<>>
                              THEN subjects_form.created + 1
                              ELSE subjects_form.created],
                      msg)
           /\ UNCHANGED SubjectsOthers

SubjectsNext ==
    \/ SubjectsQueuedMessage
    \/ SubjectsUserEdits
    \/ SubjectsUserSubmits
    \/ SubjectsUserRemoves
    \/ SubjectsResponse


(***************************************************************************)
(* thoth-app: LanguagesFormComponent                                       *)
(* (thoth-app/src/component/languages_form.rs)                             *)
(*                                                                         *)
(* The component is built like the subjects form: the same queue, the same *)
(* pending requests, the same parent that stores what update_languages      *)
(* emits and hands it back as props.languages.                             *)
(***************************************************************************)

LanguageRelations == {"Original", "TranslatedFrom"}

LanguageCodes == {"Aar", "Eng"}

\* Language::default(), the new_language of a fresh form.
DefaultLanguage ==
    [language_id |-> 0, language_relation |-> "Original", language_code |-> "Aar",
     main_language |-> FALSE]

\* The component after create(), for a work that has one language, its
\* main one: GetLanguageCodes and GetLanguageRelations are queued.
NewLanguagesForm ==
    [languages |-> <<[language_id |-> 0, language_relation |-> "Original",
                      language_code |-> "Eng", main_language |-> TRUE]>>,
     language_codes |-> {},
     language_relations |-> {},
     new_language |-> DefaultLanguage,
     show_add_form |-> FALSE,
     fetch_language_codes |-> NotFetching,
     fetch_language_relations |-> NotFetching,
     push_language |-> NotFetching,
     delete_language |-> NotFetching,
     queue |-> <<Msg("GetLanguageCodes", "-"), Msg("GetLanguageRelations", "-")>>,
     pending |-> {},
     created |-> 0,
     last |-> NoEffect]

LanguagesToggleAddFormDisplay(form, value) ==
    Handled([form EXCEPT !.show_add_form = value], <<>>, {}, <<>>, FALSE, TRUE)

SetLanguageCodesFetchState(form, fetch_state) ==
    LET fetch == apply(form.fetch_language_codes, fetch_state) IN
    Handled([form EXCEPT !.fetch_language_codes = fetch,
                         !.language_codes =
                             IF fetch.state = "Fetched" THEN LanguageCodes ELSE {}],
            <<>>, {}, <<>>, FALSE, TRUE)

GetLanguageCodes(form) ==
    Handled(form,
            <<Msg("SetLanguageCodesFetchState", FetchAction("Fetching", <<>>))>>,
            {[kind |-> "language_codes", variables |-> DefaultLanguage]},
            <<>>, FALSE, FALSE)

SetLanguageRelationsFetchState(form, fetch_state) ==
    LET fetch == apply(form.fetch_language_relations, fetch_state) IN
    Handled([form EXCEPT !.fetch_language_relations = fetch,
                         !.language_relations =
                             IF fetch.state = "Fetched" THEN LanguageRelations ELSE {}],
            <<>>, {}, <<>>, FALSE, TRUE)

GetLanguageRelations(form) ==
    Handled(form,
            <<Msg("SetLanguageRelationsFetchState", FetchAction("Fetching", <<>>))>>,
            {[kind |-> "language_relations", variables |-> DefaultLanguage]},
            <<>>, FALSE, FALSE)

\* SetLanguagePushState putting the created language first in the list it
\* emits.
SetLanguagePushState_prepending(form, fetch_state) ==
    LET fetch == apply(form.push_language, fetch_state)
        f == [form EXCEPT !.push_language = fetch]
        close == <<Msg("ToggleAddFormDisplay", FALSE)>>
    IN  CASE fetch.state \in {"NotFetching", "Fetching"} ->
                Handled(f, <<>>, {}, <<>>, FALSE, FALSE)
          [] fetch.state = "Fetched" /\ fetch_state.body # <<>> ->
                Handled(f, close, {}, << <<fetch_state.body[1]>> \o form.languages >>,
                        FALSE, TRUE)
          [] fetch.state = "Fetched" /\ fetch_state.body = <<>> ->
                Handled(f, close, {}, <<>>, TRUE, FALSE)
          [] fetch.state = "Failed" ->
                Handled(f, close, {}, <<>>, TRUE, FALSE)

SetLanguagePushState(form, fetch_state) ==
    LET fetch == apply(form.push_language, fetch_state)
        f == [form EXCEPT !.push_language = fetch]
        close == <<Msg("ToggleAddFormDisplay", FALSE)>>
    IN  CASE fetch.state \in {"NotFetching", "Fetching"} ->
                Handled(f, <<>>, {}, <<>>, FALSE, FALSE)
          [] fetch.state = "Fetched" /\ fetch_state.body # <<>> ->
                Handled(f, close, {}, <<Append(form.languages, fetch_state.body[1])>>,
                        FALSE, TRUE)
          [] fetch.state = "Fetched" /\ fetch_state.body = <<>> ->
                Handled(f, close, {}, <<>>, TRUE, FALSE)
          [] fetch.state = "Failed" ->
                Handled(f, close, {}, <<>>, TRUE, FALSE)

\* CreateLanguage that starts the request without sending itself the
\* Fetching message.
CreateLanguage_unannounced(form) ==
    Handled([form EXCEPT !.push_language = NotFetching],
            <<>>,
            {[kind |-> "create_language",
              variables |-> [form.new_language EXCEPT !.language_id = 0]]},
            <<>>, FALSE, FALSE)

CreateLanguage(form) ==
    Handled([form EXCEPT !.push_language = NotFetching],
            <<Msg("SetLanguagePushState", FetchAction("Fetching", <<>>))>>,
            {[kind |-> "create_language",
              variables |-> [form.new_language EXCEPT !.language_id = 0]]},
            <<>>, FALSE, FALSE)

SetLanguageDeleteState(form, fetch_state) ==
    LET fetch == apply(form.delete_language, fetch_state)
        f == [form EXCEPT !.delete_language = fetch]
    IN  CASE fetch.state \in {"NotFetching", "Fetching"} ->
                Handled(f, <<>>, {}, <<>>, FALSE, FALSE)
          [] fetch.state = "Fetched" /\ fetch_state.body # <<>> ->
                Handled(f, <<>>, {},
                        <<SelectSeq(form.languages,
                                    LAMBDA l : l.language_id # fetch_state.body[1].language_id)>>,
                        FALSE, TRUE)
          [] fetch.state = "Fetched" /\ fetch_state.body = <<>> ->
                Handled(f, <<>>, {}, <<>>, TRUE, FALSE)
          [] fetch.state = "Failed" ->
                Handled(f, <<>>, {}, <<>>, TRUE, FALSE)

DeleteLanguage(form, language_id) ==
    Handled([form EXCEPT !.delete_language = NotFetching],
            <<Msg("SetLanguageDeleteState", FetchAction("Fetching", <<>>))>>,
            {[kind |-> "delete_language",
              variables |-> [DefaultLanguage EXCEPT !.language_id = language_id]]},
            <<>>, FALSE, FALSE)

ChangeLanguageRelation(form, val) ==
    Handled([form EXCEPT !.new_language.language_relation = val], <<>>, {}, <<>>, FALSE,
            form.new_language.language_relation # val)

ChangeLanguageCode(form, code) ==
    Handled([form EXCEPT !.new_language.language_code = code], <<>>, {}, <<>>, FALSE,
            form.new_language.language_code # code)

ChangeMainLanguage(form, val) ==
    Handled([form EXCEPT !.new_language.main_language = val], <<>>, {}, <<>>, FALSE,
            form.new_language.main_language # val)

\* LanguagesFormComponent::update
languages_update(form, msg) ==
    CASE msg.type = "ToggleAddFormDisplay" -> LanguagesToggleAddFormDisplay(form, msg.arg)
      [] msg.type = "SetLanguageCodesFetchState" -> SetLanguageCodesFetchState(form, msg.arg)
      [] msg.type = "GetLanguageCodes" -> GetLanguageCodes(form)
      [] msg.type = "SetLanguageRelationsFetchState" ->
            SetLanguageRelationsFetchState(form, msg.arg)
      [] msg.type = "GetLanguageRelations" -> GetLanguageRelations(form)
      [] msg.type = "SetLanguagePushState" -> SetLanguagePushState(form, msg.arg)
      [] msg.type = "CreateLanguage" -> CreateLanguage(form)
      [] msg.type = "SetLanguageDeleteState" -> SetLanguageDeleteState(form, msg.arg)
      [] msg.type = "DeleteLanguage" -> DeleteLanguage(form, msg.arg)
      [] msg.type = "ChangeLanguageRelation" -> ChangeLanguageRelation(form, msg.arg)
      [] msg.type = "ChangeLanguageCode" -> ChangeLanguageCode(form, msg.arg)
      [] msg.type = "ChangeMainLanguage" -> ChangeMainLanguage(form, msg.arg)

\* The component after update(msg) and after the parent has stored the
\* list the handler emitted.
LanguagesAfter(form, msg) ==
    LET h == languages_update(form, msg) IN
    [h.form EXCEPT
        !.languages = IF h.emit # <<>> THEN h.emit[1] ELSE h.form.languages,
        !.queue = h.form.queue \o h.sent,
        !.pending = h.form.pending \cup h.started,
        !.last = [render |-> h.render,
                  emitted |-> h.emit # <<>>, notified |-> h.notified]]

LanguagesOthers == <<client, calls, shown, export, encoding, subjects_form, box, cli, series, subjects_panel>>

\* The scheduler runs update on the next message the component sent itself.
LanguagesQueuedMessage ==
    /\ languages_form.queue # <<>>
    /\ languages_form' =
           LanguagesAfter([languages_form EXCEPT !.queue = Tail(languages_form.queue)],
                          Head(languages_form.queue))
    /\ UNCHANGED LanguagesOthers

\* A browser event (a click, a change, a completed request) reaches the
\* component once its queue is empty.
LanguagesEvent(msg) ==
    /\ languages_form' = LanguagesAfter(languages_form, msg)
    /\ UNCHANGED LanguagesOthers

\* The user opens or closes the add form, or edits one of its fields.
LanguagesUserEdits ==
    /\ languages_form.queue = <<>>
    /\ \E msg \in {Msg("ToggleAddFormDisplay", value) : value \in BOOLEAN}
                   \cup {Msg("ChangeLanguageRelation", val) : val \in LanguageRelations}
                   \cup {Msg("ChangeLanguageCode", code) : code \in LanguageCodes}
                   \cup {Msg("ChangeMainLanguage", val) : val \in BOOLEAN} :
           LanguagesEvent(msg)

\* The requests of the form that wait for the server, the two loads apart.
LanguagesWaiting ==
    {p \in languages_form.pending : p.kind \in {"create_language", "delete_language"}}

\* The user submits the add form.
LanguagesUserSubmits ==
    /\ languages_form.queue = <<>>
    /\ Cardinality(LanguagesWaiting) < MaxPending
    /\ LanguagesEvent(Msg("CreateLanguage", "-"))

\* The user removes one of the languages on display.
LanguagesUserRemoves ==
    /\ languages_form.queue = <<>>
    /\ Cardinality(LanguagesWaiting) < MaxPending
    /\ \E i \in DOMAIN languages_form.languages :
           LanguagesEvent(Msg("DeleteLanguage", languages_form.languages[i].language_id))

\* The answers the server may give to a request: the entity, no entity, or
\* a failure.
LanguagesAnswers(p) ==
    CASE p.kind = "language_codes" ->
            {Msg("SetLanguageCodesFetchState", FetchAction(a, <<>>)) :
                 a \in {"Fetched", "Failed"}}
      [] p.kind = "language_relations" ->
            {Msg("SetLanguageRelationsFetchState", FetchAction(a, <<>>)) :
                 a \in {"Fetched", "Failed"}}
      [] p.kind = "create_language" ->
            {Msg("SetLanguagePushState", FetchAction(a, <<>>)) : a \in {"Fetched", "Failed"}}
            \cup { Msg("SetLanguagePushState",
                       FetchAction("Fetched",
                           <<[p.variables EXCEPT !.language_id = languages_form.created + 1]>>)) :
                   x \in IF languages_form.created < MaxCreated THEN {1} ELSE {} }
      [] p.kind = "delete_language" ->
            {Msg("SetLanguageDeleteState", FetchAction(a, <<>>)) : a \in {"Fetched", "Failed"}}
            \cup {Msg("SetLanguageDeleteState", FetchAction("Fetched", <<p.variables>>))}

\* A request's future completes and sends its message.
LanguagesResponse ==
    /\ languages_form.queue = <<>>
    /\ \E p \in languages_form.pending : \E msg \in LanguagesAnswers(p) :
           /\ languages_form' =
                  LanguagesAfter(
                      [languages_form EXCEPT
                          !.pending = languages_form.pending \ {p},
                          !.created =
                              IF msg.type = "SetLanguagePushState" /\ msg.arg.body # <<>>
                              THEN languages_form.created + 1
                              ELSE languages_form.created],
                      msg)
           /\ UNCHANGED LanguagesOthers

LanguagesNext ==
    \/ LanguagesQueuedMessage
    \/ LanguagesUserEdits
    \/ LanguagesUserSubmits
    \/ LanguagesUserRemoves
    \/ LanguagesResponse


(***************************************************************************)
(* thoth-app: the licence icons and the status tag of a catalogue box      *)
(* (thoth-app/src/models/work/mod.rs)                                      *)
(***************************************************************************)

\* The licence texts a work may carry that are no listed Creative Commons
\* URL: the empty text, an unlisted version, a missing final slash, upper
\* case, an unlisted scheme, CC0 in another version, a misspelt licence, and
\* a licence of another family.
OtherLicenseTexts ==
    { "",
      "http://creativecommons.org/licenses/by/5.0/",
      "https://creativecommons.org/licenses/by/4.0",
      "HTTPS://CREATIVECOMMONS.ORG/LICENSES/BY/4.0/",
      "ftp://creativecommons.org/licenses/by/4.0/",
      "https://creativecommons.org/publicdomain/zero/4.0/",
      "https://creativecommons.org/licenses/by-nd-nc/4.0/",
      "https://www.gnu.org/licenses/gpl-3.0.html" }

\* The texts License::from_str names, written as the pattern they follow.
ListedLicenseTexts ==
    { scheme \o "://creativecommons.org/licenses/" \o code \o "/" \o version \o "/" :
          scheme \in {"http", "https"},
          code \in {"by", "by-sa", "by-nd", "by-nc", "by-nc-sa", "by-nc-nd"},
          version \in {"1.0", "2.0", "2.5", "3.0", "4.0"} }
    \cup { scheme \o "://creativecommons.org/publicdomain/zero/1.0/" :
               scheme \in {"http", "https"} }

\* Work::license, an Option<String> (none: the empty sequence).
WorkLicenses == {<<>>} \cup {<<text>> : text \in ListedLicenseTexts \cup OtherLicenseTexts}

WorkStatuses ==
    { "Unspecified", "Cancelled", "Forthcoming", "PostponedIndefinitely", "Active",
      "NoLongerOurProduct", "OutOfStockIndefinitely", "OutOfPrint", "Inactive",
      "Unknown", "Remaindered", "WithdrawnFromSale", "Recalled" }

\* License::from_str with one arm short of a pattern: by-nc-nd 2.5 is not
\* matched under https.
from_str_arm_missing(input) ==
    LET license ==
            CASE input \in {"http://creativecommons.org/licenses/by/1.0/",
                              "http://creativecommons.org/licenses/by/2.0/",
                              "http://creativecommons.org/licenses/by/2.5/",
                              "http://creativecommons.org/licenses/by/3.0/",
                              "http://creativecommons.org/licenses/by/4.0/",
                              "https://creativecommons.org/licenses/by/1.0/",
                              "https://creativecommons.org/licenses/by/2.0/",
                              "https://creativecommons.org/licenses/by/2.5/",
                              "https://creativecommons.org/licenses/by/3.0/",
                              "https://creativecommons.org/licenses/by/4.0/"} -> "By"
              [] input \in {"http://creativecommons.org/licenses/by-sa/1.0/",
                              "http://creativecommons.org/licenses/by-sa/2.0/",
                              "http://creativecommons.org/licenses/by-sa/2.5/",
                              "http://creativecommons.org/licenses/by-sa/3.0/",
                              "http://creativecommons.org/licenses/by-sa/4.0/",
                              "https://creativecommons.org/licenses/by-sa/1.0/",
                              "https://creativecommons.org/licenses/by-sa/2.0/",
                              "https://creativecommons.org/licenses/by-sa/2.5/",
                              "https://creativecommons.org/licenses/by-sa/3.0/",
                              "https://creativecommons.org/licenses/by-sa/4.0/"} -> "BySa"
              [] input \in {"http://creativecommons.org/licenses/by-nd/1.0/",
                              "http://creativecommons.org/licenses/by-nd/2.0/",
                              "http://creativecommons.org/licenses/by-nd/2.5/",
                              "http://creativecommons.org/licenses/by-nd/3.0/",
                              "http://creativecommons.org/licenses/by-nd/4.0/",
                              "https://creativecommons.org/licenses/by-nd/1.0/",
                              "https://creativecommons.org/licenses/by-nd/2.0/",
                              "https://creativecommons.org/licenses/by-nd/2.5/",
                              "https://creativecommons.org/licenses/by-nd/3.0/",
                              "https://creativecommons.org/licenses/by-nd/4.0/"} -> "ByNd"
              [] input \in {"http://creativecommons.org/licenses/by-nc/1.0/",
                              "http://creativecommons.org/licenses/by-nc/2.0/",
                              "http://creativecommons.org/licenses/by-nc/2.5/",
                              "http://creativecommons.org/licenses/by-nc/3.0/",
                              "http://creativecommons.org/licenses/by-nc/4.0/",
                              "https://creativecommons.org/licenses/by-nc/1.0/",
                              "https://creativecommons.org/licenses/by-nc/2.0/",
                              "https://creativecommons.org/licenses/by-nc/2.5/",
                              "https://creativecommons.org/licenses/by-nc/3.0/",
                              "https://creativecommons.org/licenses/by-nc/4.0/"} -> "ByNc"
              [] input \in {"http://creativecommons.org/licenses/by-nc-sa/1.0/",
                              "http://creativecommons.org/licenses/by-nc-sa/2.0/",
                              "http://creativecommons.org/licenses/by-nc-sa/2.5/",
                              "http://creativecommons.org/licenses/by-nc-sa/3.0/",
                              "http://creativecommons.org/licenses/by-nc-sa/4.0/",
                              "https://creativecommons.org/licenses/by-nc-sa/1.0/",
                              "https://creativecommons.org/licenses/by-nc-sa/2.0/",
                              "https://creativecommons.org/licenses/by-nc-sa/2.5/",
                              "https://creativecommons.org/licenses/by-nc-sa/3.0/",
                              "https://creativecommons.org/licenses/by-nc-sa/4.0/"} -> "ByNcSa"
              [] input \in {"http://creativecommons.org/licenses/by-nc-nd/1.0/",
                              "http://creativecommons.org/licenses/by-nc-nd/2.0/",
                              "http://creativecommons.org/licenses/by-nc-nd/2.5/",
                              "http://creativecommons.org/licenses/by-nc-nd/3.0/",
                              "http://creativecommons.org/licenses/by-nc-nd/4.0/",
                              "https://creativecommons.org/licenses/by-nc-nd/1.0/",
                              "https://creativecommons.org/licenses/by-nc-nd/2.0/",
                              "https://creativecommons.org/licenses/by-nc-nd/3.0/",
                              "https://creativecommons.org/licenses/by-nc-nd/4.0/"} -> "ByNcNd"
              [] input \in {"http://creativecommons.org/publicdomain/zero/1.0/",
                              "https://creativecommons.org/publicdomain/zero/1.0/"} -> "Zero"
              [] OTHER -> "Undefined"
    IN  [ok |-> TRUE, value |-> license]

\* impl FromStr for License
from_str(input) ==
    LET license ==
            CASE input \in {"http://creativecommons.org/licenses/by/1.0/",
                              "http://creativecommons.org/licenses/by/2.0/",
                              "http://creativecommons.org/licenses/by/2.5/",
                              "http://creativecommons.org/licenses/by/3.0/",
                              "http://creativecommons.org/licenses/by/4.0/",
                              "https://creativecommons.org/licenses/by/1.0/",
                              "https://creativecommons.org/licenses/by/2.0/",
                              "https://creativecommons.org/licenses/by/2.5/",
                              "https://creativecommons.org/licenses/by/3.0/",
                              "https://creativecommons.org/licenses/by/4.0/"} -> "By"
              [] input \in {"http://creativecommons.org/licenses/by-sa/1.0/",
                              "http://creativecommons.org/licenses/by-sa/2.0/",
                              "http://creativecommons.org/licenses/by-sa/2.5/",
                              "http://creativecommons.org/licenses/by-sa/3.0/",
                              "http://creativecommons.org/licenses/by-sa/4.0/",
                              "https://creativecommons.org/licenses/by-sa/1.0/",
                              "https://creativecommons.org/licenses/by-sa/2.0/",
                              "https://creativecommons.org/licenses/by-sa/2.5/",
                              "https://creativecommons.org/licenses/by-sa/3.0/",
                              "https://creativecommons.org/licenses/by-sa/4.0/"} -> "BySa"
              [] input \in {"http://creativecommons.org/licenses/by-nd/1.0/",
                              "http://creativecommons.org/licenses/by-nd/2.0/",
                              "http://creativecommons.org/licenses/by-nd/2.5/",
                              "http://creativecommons.org/licenses/by-nd/3.0/",
                              "http://creativecommons.org/licenses/by-nd/4.0/",
                              "https://creativecommons.org/licenses/by-nd/1.0/",
                              "https://creativecommons.org/licenses/by-nd/2.0/",
                              "https://creativecommons.org/licenses/by-nd/2.5/",
                              "https://creativecommons.org/licenses/by-nd/3.0/",
                              "https://creativecommons.org/licenses/by-nd/4.0/"} -> "ByNd"
              [] input \in {"http://creativecommons.org/licenses/by-nc/1.0/",
                              "http://creativecommons.org/licenses/by-nc/2.0/",
                              "http://creativecommons.org/licenses/by-nc/2.5/",
                              "http://creativecommons.org/licenses/by-nc/3.0/",
                              "http://creativecommons.org/licenses/by-nc/4.0/",
                              "https://creativecommons.org/licenses/by-nc/1.0/",
                              "https://creativecommons.org/licenses/by-nc/2.0/",
                              "https://creativecommons.org/licenses/by-nc/2.5/",
                              "https://creativecommons.org/licenses/by-nc/3.0/",
                              "https://creativecommons.org/licenses/by-nc/4.0/"} -> "ByNc"
              [] input \in {"http://creativecommons.org/licenses/by-nc-sa/1.0/",
                              "http://creativecommons.org/licenses/by-nc-sa/2.0/",
                              "http://creativecommons.org/licenses/by-nc-sa/2.5/",
                              "http://creativecommons.org/licenses/by-nc-sa/3.0/",
                              "http://creativecommons.org/licenses/by-nc-sa/4.0/",
                              "https://creativecommons.org/licenses/by-nc-sa/1.0/",
                              "https://creativecommons.org/licenses/by-nc-sa/2.0/",
                              "https://creativecommons.org/licenses/by-nc-sa/2.5/",
                              "https://creativecommons.org/licenses/by-nc-sa/3.0/",
                              "https://creativecommons.org/licenses/by-nc-sa/4.0/"} -> "ByNcSa"
              [] input \in {"http://creativecommons.org/licenses/by-nc-nd/1.0/",
                              "http://creativecommons.org/licenses/by-nc-nd/2.0/",
                              "http://creativecommons.org/licenses/by-nc-nd/2.5/",
                              "http://creativecommons.org/licenses/by-nc-nd/3.0/",
                              "http://creativecommons.org/licenses/by-nc-nd/4.0/",
                              "https://creativecommons.org/licenses/by-nc-nd/1.0/",
                              "https://creativecommons.org/licenses/by-nc-nd/2.0/",
                              "https://creativecommons.org/licenses/by-nc-nd/2.5/",
                              "https://creativecommons.org/licenses/by-nc-nd/3.0/",
                              "https://creativecommons.org/licenses/by-nc-nd/4.0/"} -> "ByNcNd"
              [] input \in {"http://creativecommons.org/publicdomain/zero/1.0/",
                              "https://creativecommons.org/publicdomain/zero/1.0/"} -> "Zero"
              [] OTHER -> "Undefined"
    IN  [ok |-> TRUE, value |-> license]

\* Option::unwrap_or_default
unwrap_or_default(option) == IF option = <<>> THEN "" ELSE option[1]

\* DisplayWork::license_icons: the icons in the span, or a panic when the
\* parsed licence cannot be unwrapped.
license_icons(self) ==
    LET parsed == from_str(unwrap_or_default(self.license)) IN
    IF ~parsed.ok THEN [panicked |-> TRUE, icons |-> <<>>]
    ELSE LET license == parsed.value IN
         [panicked |-> FALSE,
          icons |->
              (IF license # "Undefined" THEN <<"creative-commons">> ELSE <<>>)
              \o CASE license = "By" -> <<"by">>
                   [] license = "BySa" -> <<"by", "sa">>
                   [] license = "ByNd" -> <<"by", "nd">>
                   [] license = "ByNc" -> <<"by", "nc">>
                   [] license = "ByNcSa" -> <<"by", "nc", "sa">>
                   [] license = "ByNcNd" -> <<"by", "nc", "nd">>
                   [] license = "Zero" -> <<"zero">>
                   [] license = "Undefined" -> <<>>]

\* DisplayWork::status_tag with a tag for Active as well.
status_tag_active_tagged(self) ==
    CASE self.work_status = "Unspecified" -> <<>>
      [] self.work_status = "Cancelled" -> <<[class |-> "is-danger", text |-> "Cancelled"]>>
      [] self.work_status = "Forthcoming" -> <<[class |-> "is-warning", text |-> "Forthcoming"]>>
      [] self.work_status = "PostponedIndefinitely" ->
            <<[class |-> "is-warning", text |-> "Postponed"]>>
      [] self.work_status = "Active" -> <<[class |-> "is-success", text |-> "Active"]>>
      [] self.work_status = "NoLongerOurProduct" -> <<>>
      [] self.work_status = "OutOfStockIndefinitely" -> <<>>
      [] self.work_status = "OutOfPrint" -> <<[class |-> "is-danger", text |-> "Out of print"]>>
      [] self.work_status = "Inactive" -> <<[class |-> "is-danger", text |-> "Inactive"]>>
      [] self.work_status = "Unknown" -> <<>>
      [] self.work_status = "Remaindered" -> <<>>
      [] self.work_status = "WithdrawnFromSale" ->
            <<[class |-> "is-danger", text |-> "Withdrawn"]>>
      [] self.work_status = "Recalled" -> <<[class |-> "is-danger", text |-> "Recalled"]>>

\* DisplayWork::status_tag: the tag rendered (none: the empty sequence).
\* The match has no arm for a status outside the thirteen.
status_tag(self) ==
    CASE self.work_status = "Unspecified" -> <<>>
      [] self.work_status = "Cancelled" -> <<[class |-> "is-danger", text |-> "Cancelled"]>>
      [] self.work_status = "Forthcoming" -> <<[class |-> "is-warning", text |-> "Forthcoming"]>>
      [] self.work_status = "PostponedIndefinitely" ->
            <<[class |-> "is-warning", text |-> "Postponed"]>>
      [] self.work_status = "Active" -> <<>>
      [] self.work_status = "NoLongerOurProduct" -> <<>>
      [] self.work_status = "OutOfStockIndefinitely" -> <<>>
      [] self.work_status = "OutOfPrint" -> <<[class |-> "is-danger", text |-> "Out of print"]>>
      [] self.work_status = "Inactive" -> <<[class |-> "is-danger", text |-> "Inactive"]>>
      [] self.work_status = "Unknown" -> <<>>
      [] self.work_status = "Remaindered" -> <<>>
      [] self.work_status = "WithdrawnFromSale" ->
            <<[class |-> "is-danger", text |-> "Withdrawn"]>>
      [] self.work_status = "Recalled" -> <<[class |-> "is-danger", text |-> "Recalled"]>>

\* No catalogue box is being rendered.
NoBox ==
    [pc |-> "idle", work |-> [license |-> <<>>, work_status |-> "Unspecified"],
     license_icons |-> [panicked |-> FALSE, icons |-> <<>>], status_tag |-> <<>>]

BoxOthers ==
    <<client, calls, shown, export, encoding, subjects_form, languages_form, cli, series, subjects_panel>>

\* as_catalogue_box is called on a work.
BoxWork ==
    /\ box.pc \in {"idle", "rendered"}
    /\ \E license \in WorkLicenses : \E work_status \in WorkStatuses :
           box' = [NoBox EXCEPT !.pc = "box",
                                !.work = [license |-> license, work_status |-> work_status]]
    /\ UNCHANGED BoxOthers

\* The box renders the licence icons of its work.
BoxLicenseIcons ==
    /\ box.pc = "box"
    /\ box' = [box EXCEPT !.pc = IF license_icons(box.work).panicked THEN "panicked"
                                 ELSE "icons",
                          !.license_icons = license_icons(box.work)]
    /\ UNCHANGED BoxOthers

\* The box renders the status tag of its work.
BoxStatusTag ==
    /\ box.pc = "icons"
    /\ box' = [box EXCEPT !.pc = "rendered", !.status_tag = status_tag(box.work)]
    /\ UNCHANGED BoxOthers

BoxNext ==
    \/ BoxWork
    \/ BoxLicenseIcons
    \/ BoxStatusTag


(***************************************************************************)
(* The thoth binary (src/bin/thoth.rs)                                     *)
(*                                                                         *)
(* An argument is its name, its short and long flags and its default value *)
(* (none: the empty sequence).  The values given on the command line or in *)
(* the environment are taken to be well-formed.                            *)
(***************************************************************************)

Arg(name, short, long, default) ==
    [name |-> name, short |-> short, long |-> long, default |-> default]

host_argument == Arg("host", "H", "host", <<"0.0.0.0">>)

port_argument(default_value) == Arg("port", "p", "port", <<default_value>>)

domain_argument == Arg("domain", "d", "domain", <<"localhost">>)

key_argument == Arg("key", "k", "secret-key", <<>>)

session_argument == Arg("duration", "s", "session-length", <<"3600">>)

gql_url_argument == Arg("gql-url", "u", "gql-url", <<"http://localhost:8000">>)

\* gql_endpoint_argument with the short flag of export_url_argument.
gql_endpoint_argument_short_u ==
    Arg("gql-endpoint", "u", "gql-endpoint", <<"http://localhost:8000/graphql">>)

gql_endpoint_argument ==
    Arg("gql-endpoint", "g", "gql-endpoint", <<"http://localhost:8000/graphql">>)

export_url_argument == Arg("export-url", "u", "export-url", <<"http://localhost:8181">>)

threads_argument == Arg("threads", "t", "threads", <<"5">>)

keep_alive_argument == Arg("keep-alive", "K", "keep-alive", <<"5">>)

\* The commands that run something, each with the arguments declared for
\* it.
thoth_commands ==
    { [path |-> <<"migrate">>, args |-> <<>>],
      [path |-> <<"start", "graphql-api">>,
       args |-> <<host_argument, port_argument("8000"), threads_argument,
                  keep_alive_argument, gql_url_argument, domain_argument,
                  key_argument, session_argument>>],
      [path |-> <<"start", "app">>,
       args |-> <<host_argument, port_argument("8080"), threads_argument,
                  keep_alive_argument>>],
      [path |-> <<"start", "export-api">>,
       args |-> <<host_argument, port_argument("8181"), threads_argument,
                  keep_alive_argument, export_url_argument, gql_endpoint_argument>>],
      [path |-> <<"init">>,
       args |-> <<host_argument, port_argument("8000"), threads_argument,
                  keep_alive_argument, gql_url_argument, domain_argument,
                  key_argument, session_argument>>],
      [path |-> <<"account", "register">>, args |-> <<>>],
      [path |-> <<"account", "password">>, args |-> <<>>] }

\* The arguments main reads with unwrap in the arm of a command, in order.
ReadWithUnwrap(path) ==
    CASE path \in {<<"start", "graphql-api">>, <<"init">>} ->
            <<"host", "port", "threads", "keep-alive", "gql-url", "domain", "key",
              "duration">>
      [] path = <<"start", "app">> -> <<"host", "port", "threads", "keep-alive">>
      [] path = <<"start", "export-api">> ->
            <<"host", "port", "threads", "keep-alive", "export-url", "gql-endpoint">>
      [] OTHER -> <<>>

\* ArgMatches::value_of: the value given, else the default, else None; None
\* as well for a name the command does not declare.
value_of(command, given, name) ==
    LET declared == {i \in DOMAIN command.args : command.args[i].name = name} IN
    IF declared = {} THEN <<>>
    ELSE IF name \in given THEN <<"given">>
    ELSE command.args[CHOOSE i \in declared : TRUE].default

\* The server a command starts.
Server(path) ==
    CASE path \in {<<"start", "graphql-api">>, <<"init">>} -> "api_server"
      [] path = <<"start", "app">> -> "app_server"
      [] path = <<"start", "export-api">> -> "export_server"

\* The ? operator ignored: an error does not end main.
QuestionMark_ignored(result) == FALSE

\* The ? operator: an error ends main, which returns it.
QuestionMark(result) == result = "Err"

\* main has not been entered.
NoCli ==
    [pc |-> "main", command |-> [path |-> <<>>, args |-> <<>>], given |-> {},
     read |-> <<>>, called |-> <<>>, migrations |-> "-", result |-> "-"]

CliOthers ==
    <<client, calls, shown, export, encoding, subjects_form, languages_form, box, series, subjects_panel>>

\* thoth_commands().get_matches().subcommand(): the command named on the
\* command line and the arguments given a value there or in the environment.
CliGetMatches ==
    /\ cli.pc = "main"
    /\ \E command \in thoth_commands :
       \E given \in SUBSET {command.args[i].name : i \in DOMAIN command.args} :
           cli' = [cli EXCEPT !.pc = "matched", !.command = command, !.given = given]
    /\ UNCHANGED CliOthers

\* The arm of the command reads its arguments; unwrap panics on None.
CliReadArguments ==
    /\ cli.pc = "matched"
    /\ LET names == ReadWithUnwrap(cli.command.path)
           none == {i \in DOMAIN names : value_of(cli.command, cli.given, names[i]) = <<>>}
       IN  IF none = {}
           THEN cli' = [cli EXCEPT !.pc = "read", !.read = names]
           ELSE cli' = [cli EXCEPT
                           !.pc = "panicked",
                           !.read = SubSeq(names, 1,
                                           CHOOSE i \in none : \A j \in none : i <= j)]
    /\ UNCHANGED CliOthers

\* run_migrations(), in migrate and in init; init goes on only past the ?.
CliRunMigrations ==
    /\ cli.pc = "read"
    /\ cli.command.path \in {<<"migrate">>, <<"init">>}
    /\ \E result \in {"Ok", "Err"} :
           cli' = [cli EXCEPT
                      !.called = Append(cli.called, "run_migrations"),
                      !.migrations = result,
                      !.pc = IF cli.command.path = <<"init">> /\ ~QuestionMark(result)
                             THEN "migrated" ELSE "returned",
                      !.result = IF cli.command.path = <<"init">> /\ ~QuestionMark(result)
                                 THEN "-" ELSE result]
    /\ UNCHANGED CliOthers

\* api_server, app_server or export_server runs and main returns what it
\* returns.
CliStartServer ==
    /\ \/ cli.pc = "read" /\ cli.command.path[1] = "start"
       \/ cli.pc = "migrated"
    /\ \E result \in {"Ok", "Err"} :
           cli' = [cli EXCEPT !.called = Append(cli.called, Server(cli.command.path)),
                              !.pc = "returned", !.result = result]
    /\ UNCHANGED CliOthers

\* account register and account password: the dialogue with the user and
\* the database.
CliAccount ==
    /\ cli.pc = "read"
    /\ cli.command.path[1] = "account"
    /\ \E result \in {"Ok", "Err"} :
           cli' = [cli EXCEPT !.called = Append(cli.called, cli.command.path[2]),
                              !.pc = "returned", !.result = result]
    /\ UNCHANGED CliOthers

CliNext ==
    \/ CliGetMatches
    \/ CliReadArguments
    \/ CliRunMigrations
    \/ CliStartServer
    \/ CliAccount


(***************************************************************************)
(* thoth-app: SeriesComponent (thoth-app/src/component/series.rs)          *)
(*                                                                         *)
(* The component has the queue and the pending requests of the two forms.  *)
(* Of a series the model keeps its id and the publisher of its imprint; of *)
(* the current user, the resource_access, which is read through            *)
(* restricted_to: no publishers for an unrestricted user, else the set the *)
(* user is restricted to.  The handlers that edit a field of the series    *)
(* are left out.                                                           *)
(***************************************************************************)

\* The resource_access a current user may have.
AccountAccesses ==
    { [restricted_to |-> <<>>], [restricted_to |-> <<{}>>], [restricted_to |-> <<{"p1"}>>] }

\* SeriesWithImprint::default()
DefaultSeries == [series_id |-> "nil", publisher_id |-> "nil"]

\* The series the server may hold under the id in the props.
StoredSeries == {[series_id |-> "s1", publisher_id |-> p] : p \in {"p1", "p2"}}

\* The component after create(), for an unrestricted user: GetSeries,
\* GetImprints and GetSeriesTypes are queued.
NewSeriesComponent ==
    [current_user |-> [resource_access |-> [restricted_to |-> <<>>]],
     resource_access |-> [restricted_to |-> <<>>],
     series |-> DefaultSeries,
     fetch_series |-> NotFetching,
     push_series |-> NotFetching,
     fetch_imprints |-> NotFetching,
     fetch_series_types |-> NotFetching,
     delete_series |-> NotFetching,
     imprints |-> <<>>,
     series_types |-> {},
     queue |-> <<Msg("GetSeries", "-"), Msg("GetImprints", "-"), Msg("GetSeriesTypes", "-")>>,
     pending |-> {},
     last |-> [render |-> FALSE, notified |-> "-", pushed |-> <<>>]]

\* The result of a handler of the series component: the component, the
\* messages it sent itself, the requests it started, the route it pushed
\* (none: empty), the status of the notification it sent ("-": none) and
\* whether it asked to be rendered.
SeriesHandled(component, sent, started, pushed, notified, render) ==
    [component |-> component, sent |-> sent, started |-> started, pushed |-> pushed,
     notified |-> notified, render |-> render]

\* A request of the series component: its kind and what its variables
\* hold of the model (the publishers, or the series id).
SeriesRequest(kind, variables) == [kind |-> kind, variables |-> variables]

SetImprintsFetchState(component, fetch_state) ==
    LET fetch == apply(component.fetch_imprints, fetch_state) IN
    SeriesHandled([component EXCEPT !.fetch_imprints = fetch,
                                    !.imprints = IF fetch.state = "Fetched"
                                                 THEN fetch_state.body ELSE <<>>],
                  <<>>, {}, <<>>, "-", TRUE)

GetImprints(component) ==
    SeriesHandled([component EXCEPT !.fetch_imprints = NotFetching],
                  <<Msg("SetImprintsFetchState", FetchAction("Fetching", <<>>))>>,
                  {SeriesRequest("imprints",
                                 component.current_user.resource_access.restricted_to)},
                  <<>>, "-", FALSE)

SetSeriesTypesFetchState(component, fetch_state) ==
    LET fetch == apply(component.fetch_series_types, fetch_state) IN
    SeriesHandled([component EXCEPT !.fetch_series_types = fetch,
                                    !.series_types = IF fetch.state = "Fetched"
                                                     THEN {"Journal", "BookSeries"} ELSE {}],
                  <<>>, {}, <<>>, "-", TRUE)

GetSeriesTypes(component) ==
    SeriesHandled(component,
                  <<Msg("SetSeriesTypesFetchState", FetchAction("Fetching", <<>>))>>,
                  {SeriesRequest("series_types", <<>>)}, <<>>, "-", FALSE)

\* SetSeriesFetchState without the substitution of the default series in
\* the permission check: a response that holds no series never redirects.
SetSeriesFetchState_default_unchecked(component, fetch_state) ==
    LET fetch == apply(component.fetch_series, fetch_state)
        c == [component EXCEPT !.fetch_series = fetch]
    IN  IF fetch.state = "Fetched"
        THEN LET c_series == IF fetch_state.body # <<>> THEN fetch_state.body[1]
                             ELSE DefaultSeries
                 publishers == component.current_user.resource_access.restricted_to
             IN  SeriesHandled([c EXCEPT !.series = c_series], <<>>, {},
                               IF /\ publishers # <<>>
                                  /\ fetch_state.body # <<>>
                                  /\ c_series.publisher_id \notin publishers[1]
                               THEN <<"Dashboard">> ELSE <<>>,
                               "-", TRUE)
        ELSE SeriesHandled(c, <<>>, {}, <<>>, "-", FALSE)

SetSeriesFetchState(component, fetch_state) ==
    LET fetch == apply(component.fetch_series, fetch_state)
        c == [component EXCEPT !.fetch_series = fetch]
    IN  IF fetch.state = "Fetched"
        THEN LET c_series == IF fetch_state.body # <<>> THEN fetch_state.body[1]
                             ELSE DefaultSeries
                 publishers == component.current_user.resource_access.restricted_to
             IN  SeriesHandled([c EXCEPT !.series = c_series], <<>>, {},
                               IF /\ publishers # <<>>
                                  /\ c_series.publisher_id \notin publishers[1]
                               THEN <<"Dashboard">> ELSE <<>>,
                               "-", TRUE)
        ELSE SeriesHandled(c, <<>>, {}, <<>>, "-", FALSE)

GetSeries(component) ==
    SeriesHandled([component EXCEPT !.fetch_series = NotFetching],
                  <<Msg("SetSeriesFetchState", FetchAction("Fetching", <<>>))>>,
                  {SeriesRequest("series", <<"s1">>)}, <<>>, "-", FALSE)

SetSeriesPushState(component, fetch_state) ==
    LET fetch == apply(component.push_series, fetch_state)
        c == [component EXCEPT !.push_series = fetch]
    IN  CASE fetch.state \in {"NotFetching", "Fetching"} ->
                SeriesHandled(c, <<>>, {}, <<>>, "-", FALSE)
          [] fetch.state = "Fetched" /\ fetch_state.body # <<>> ->
                SeriesHandled(c, <<>>, {}, <<>>, "Success", TRUE)
          [] fetch.state = "Fetched" /\ fetch_state.body = <<>> ->
                SeriesHandled(c, <<>>, {}, <<>>, "Danger", FALSE)
          [] fetch.state = "Failed" ->
                SeriesHandled(c, <<>>, {}, <<>>, "Danger", FALSE)

UpdateSeries(component) ==
    SeriesHandled([component EXCEPT !.push_series = NotFetching],
                  <<Msg("SetSeriesPushState", FetchAction("Fetching", <<>>))>>,
                  {SeriesRequest("update_series", <<component.series.series_id>>)},
                  <<>>, "-", FALSE)

SetSeriesDeleteState(component, fetch_state) ==
    LET fetch == apply(component.delete_series, fetch_state)
        c == [component EXCEPT !.delete_series = fetch]
    IN  CASE fetch.state \in {"NotFetching", "Fetching"} ->
                SeriesHandled(c, <<>>, {}, <<>>, "-", FALSE)
          [] fetch.state = "Fetched" /\ fetch_state.body # <<>> ->
                SeriesHandled(c, <<>>, {}, <<"Serieses">>, "Success", TRUE)
          [] fetch.state = "Fetched" /\ fetch_state.body = <<>> ->
                SeriesHandled(c, <<>>, {}, <<>>, "Danger", FALSE)
          [] fetch.state = "Failed" ->
                SeriesHandled(c, <<>>, {}, <<>>, "Danger", FALSE)

DeleteSeries(component) ==
    SeriesHandled([component EXCEPT !.delete_series = NotFetching],
                  <<Msg("SetSeriesDeleteState", FetchAction("Fetching", <<>>))>>,
                  {SeriesRequest("delete_series", <<component.series.series_id>>)},
                  <<>>, "-", FALSE)

\* SeriesComponent::changed that sends GetImprints on every props change.
changed_always_refetching(component) ==
    SeriesHandled([component EXCEPT
                      !.resource_access = component.current_user.resource_access],
                  <<Msg("GetImprints", "-")>>, {}, <<>>, "-", FALSE)

\* SeriesComponent::changed, called with the new props in place.
changed(component) ==
    LET updated_permissions ==
            component.resource_access # component.current_user.resource_access
    IN  SeriesHandled([component EXCEPT
                          !.resource_access = component.current_user.resource_access],
                      IF updated_permissions THEN <<Msg("GetImprints", "-")>> ELSE <<>>,
                      {}, <<>>, "-", FALSE)

\* SeriesComponent::update
series_update(component, msg) ==
    CASE msg.type = "SetImprintsFetchState" -> SetImprintsFetchState(component, msg.arg)
      [] msg.type = "GetImprints" -> GetImprints(component)
      [] msg.type = "SetSeriesTypesFetchState" ->
            SetSeriesTypesFetchState(component, msg.arg)
      [] msg.type = "GetSeriesTypes" -> GetSeriesTypes(component)
      [] msg.type = "SetSeriesFetchState" -> SetSeriesFetchState(component, msg.arg)
      [] msg.type = "GetSeries" -> GetSeries(component)
      [] msg.type = "SetSeriesPushState" -> SetSeriesPushState(component, msg.arg)
      [] msg.type = "UpdateSeries" -> UpdateSeries(component)
      [] msg.type = "SetSeriesDeleteState" -> SetSeriesDeleteState(component, msg.arg)
      [] msg.type = "DeleteSeries" -> DeleteSeries(component)

\* The component once a handler has run: what it sent is queued, what it
\* started is pending.
SeriesAfter(h) ==
    [h.component EXCEPT
        !.queue = h.component.queue \o h.sent,
        !.pending = h.component.pending \cup h.started,
        !.last = [render |-> h.render, notified |-> h.notified, pushed |-> h.pushed]]

\* The scheduler runs update on the next message the component sent itself.
SeriesQueuedMessage ==
    /\ series.queue # <<>>
    /\ series' = SeriesAfter(series_update([series EXCEPT !.queue = Tail(series.queue)],
                                           Head(series.queue)))
    /\ UNCHANGED <<client, calls, shown, export, encoding, subjects_form, languages_form,
                   box, cli, subjects_panel>>

\* The parent hands the component new props: another current user, whose
\* resource_access may or may not differ.
SeriesPropsChange ==
    /\ series.queue = <<>>
    /\ \E resource_access \in AccountAccesses :
           series' = SeriesAfter(changed([series EXCEPT
                         !.current_user.resource_access = resource_access]))
    /\ UNCHANGED <<client, calls, shown, export, encoding, subjects_form, languages_form,
                   box, cli, subjects_panel>>

\* The user saves or deletes the series on display.
SeriesUserActs ==
    /\ series.queue = <<>>
    /\ series.fetch_series.state = "Fetched"
    /\ Cardinality({p \in series.pending :
                        p.kind \in {"update_series", "delete_series"}}) < MaxPending
    /\ \E type \in {"UpdateSeries", "DeleteSeries"} :
           series' = SeriesAfter(series_update(series, Msg(type, "-")))
    /\ UNCHANGED <<client, calls, shown, export, encoding, subjects_form, languages_form,
                   box, cli, subjects_panel>>

\* The answers the server may give to a request: the entity, no entity, or
\* a failure.
SeriesAnswers(p) ==
    CASE p.kind = "imprints" ->
            {Msg("SetImprintsFetchState", FetchAction("Failed", <<>>)),
             Msg("SetImprintsFetchState", FetchAction("Fetched", <<"i1">>))}
      [] p.kind = "series_types" ->
            {Msg("SetSeriesTypesFetchState", FetchAction(a, <<>>)) :
                 a \in {"Fetched", "Failed"}}
      [] p.kind = "series" ->
            {Msg("SetSeriesFetchState", FetchAction(a, <<>>)) : a \in {"Fetched", "Failed"}}
            \cup {Msg("SetSeriesFetchState", FetchAction("Fetched", <<s>>)) :
                      s \in StoredSeries}
      [] p.kind = "update_series" ->
            {Msg("SetSeriesPushState", FetchAction(a, <<>>)) : a \in {"Fetched", "Failed"}}
            \cup {Msg("SetSeriesPushState", FetchAction("Fetched", <<series.series, subjects_panel>>))}
      [] p.kind = "delete_series" ->
            {Msg("SetSeriesDeleteState", FetchAction(a, <<>>)) : a \in {"Fetched", "Failed"}}
            \cup {Msg("SetSeriesDeleteState", FetchAction("Fetched", <<series.series, subjects_panel>>))}

\* A request's future completes and sends its message.
SeriesResponse ==
    /\ series.queue = <<>>
    /\ \E p \in series.pending : \E msg \in SeriesAnswers(p) :
           series' = SeriesAfter(series_update(
                         [series EXCEPT !.pending = series.pending \ {p}], msg))
    /\ UNCHANGED <<client, calls, shown, export, encoding, subjects_form, languages_form,
                   box, cli, subjects_panel>>

SeriesNext ==
    \/ SeriesQueuedMessage
    \/ SeriesPropsChange
    \/ SeriesUserActs
    \/ SeriesResponse


(***************************************************************************)
(* thoth-app: the list of subjects SubjectsFormComponent::view displays    *)
(* (thoth-app/src/component/subjects_form.rs)                              *)
(***************************************************************************)

\* The longest list of subjects in the props.
MaxSubjects == 3

\* The ordinals of the subjects in the props.
SubjectOrdinals == {1, 2}

\* The subject types in the order PartialOrd gives them, the order of their
\* declaration.
SubjectTypeOrder == <<"Bic", "Keyword">>

\* The subjects the props may hold (Option<Vec<Subject>>: none is <<>>,
\* some list is <<list>>); the id of a subject tells its place in the props.
PropsSubjects ==
    {<<>>} \cup
    UNION {{ << [i \in 1..n |-> [subject_id |-> i, subject_type |-> keys[i][1],
                                 subject_code |-> <<"A">>, subject_ordinal |-> keys[i][2]]] >> :
                 keys \in [1..n -> SubjectTypes \X SubjectOrdinals] } : n \in 0..MaxSubjects}

\* partial_cmp(..).unwrap() on two i32 or two SubjectType ranks.
partial_cmp(a, b) == IF a < b THEN "Less" ELSE IF a = b THEN "Equal" ELSE "Greater"

\* The closure view passes to sort_by, with the subject types never told
\* apart.
compare_ordinals_only(a, b) ==
    partial_cmp(a.subject_ordinal, b.subject_ordinal)

\* The closure view passes to sort_by.
compare(a, b) ==
    IF a.subject_type = b.subject_type
    THEN partial_cmp(a.subject_ordinal, b.subject_ordinal)
    ELSE partial_cmp(CHOOSE i \in DOMAIN SubjectTypeOrder : SubjectTypeOrder[i] = a.subject_type,
                     CHOOSE i \in DOMAIN SubjectTypeOrder : SubjectTypeOrder[i] = b.subject_type)

\* slice::sort_by, a stable sort: each element in turn is put behind the
\* elements already placed that are not greater than it.
RECURSIVE sort_by(_)
sort_by(list) ==
    IF list = <<>> THEN <<>>
    ELSE LET placed == sort_by(SubSeq(list, 1, Len(list) - 1))
             x == list[Len(list)]
             k == Cardinality({i \in DOMAIN placed : compare(placed[i], x) # "Greater"})
         IN  SubSeq(placed, 1, k) \o <<x>> \o SubSeq(placed, k + 1, Len(placed))

\* The subjects view displays: a sorted clone of the props' list.
view(props) ==
    LET subjects == IF props.subjects = <<>> THEN <<>> ELSE props.subjects[1]
    IN  sort_by(subjects)

\* No props given and nothing displayed yet.
NoPanel == [props |-> [subjects |-> <<>>], displayed |-> <<>>, rendered |-> FALSE]

PanelOthers ==
    <<client, calls, shown, export, encoding, subjects_form, languages_form, box, cli, series>>

\* The parent gives the component a list of subjects.
PanelProps ==
    /\ \E subjects \in PropsSubjects :
           subjects_panel' = [props |-> [subjects |-> subjects], displayed |-> <<>>,
                              rendered |-> FALSE]
    /\ UNCHANGED PanelOthers

\* The component is rendered.
PanelView ==
    /\ ~subjects_panel.rendered
    /\ subjects_panel' = [subjects_panel EXCEPT !.displayed = view(subjects_panel.props),
                                                !.rendered = TRUE]
    /\ UNCHANGED PanelOthers

PanelNext ==
    \/ PanelProps
    \/ PanelView


(***************************************************************************)
(* The two forms of a work page.  They share no state, so a behaviour of   *)
(* the pair is an interleaving of a behaviour of each: what one form does  *)
(* is explored with the other one still as create() left it.               *)
(***************************************************************************)

\* A step of the subjects form, the languages form being as created.
FormsSubjects(step) ==
    /\ languages_form = NewLanguagesForm
    /\ step

\* A step of the languages form, the subjects form being as created.
FormsLanguages(step) ==
    /\ subjects_form = NewSubjectsForm
    /\ step

FormsNext ==
    \/ FormsSubjects(SubjectsQueuedMessage)
    \/ FormsSubjects(SubjectsUserEdits)
    \/ FormsSubjects(SubjectsUserSubmits)
    \/ FormsSubjects(SubjectsUserRemoves)
    \/ FormsSubjects(SubjectsResponse)
    \/ FormsLanguages(LanguagesQueuedMessage)
    \/ FormsLanguages(LanguagesUserEdits)
    \/ FormsLanguages(LanguagesUserSubmits)
    \/ FormsLanguages(LanguagesUserRemoves)
    \/ FormsLanguages(LanguagesResponse)

(***************************************************************************)
(* The three components together: each is explored with the other two as   *)
(* create() left them.                                                     *)
(***************************************************************************)

\* A step of one of the forms, the series component being as created.
ComponentsForms(step) ==
    /\ series = NewSeriesComponent
    /\ step

\* A step of the series component, the forms being as created.
ComponentsSeries(step) ==
    /\ subjects_form = NewSubjectsForm
    /\ languages_form = NewLanguagesForm
    /\ step

ComponentsNext ==
    \/ ComponentsForms(FormsSubjects(SubjectsQueuedMessage))
    \/ ComponentsForms(FormsSubjects(SubjectsUserEdits))
    \/ ComponentsForms(FormsSubjects(SubjectsUserSubmits))
    \/ ComponentsForms(FormsSubjects(SubjectsUserRemoves))
    \/ ComponentsForms(FormsSubjects(SubjectsResponse))
    \/ ComponentsForms(FormsLanguages(LanguagesQueuedMessage))
    \/ ComponentsForms(FormsLanguages(LanguagesUserEdits))
    \/ ComponentsForms(FormsLanguages(LanguagesUserSubmits))
    \/ ComponentsForms(FormsLanguages(LanguagesUserRemoves))
    \/ ComponentsForms(FormsLanguages(LanguagesResponse))
    \/ ComponentsSeries(SeriesQueuedMessage)
    \/ ComponentsSeries(SeriesPropsChange)
    \/ ComponentsSeries(SeriesUserActs)
    \/ ComponentsSeries(SeriesResponse)

Init ==
    /\ client = NewClient("http://localhost:8000/graphql")
    /\ calls = [c \in Calls |-> IdleCall]
    /\ shown = NothingShown
    /\ export = NoExport
    /\ encoding = NoEncoding
    /\ subjects_form = NewSubjectsForm
    /\ languages_form = NewLanguagesForm
    /\ box = NoBox
    /\ cli = NoCli
    /\ series = NewSeriesComponent
    /\ subjects_panel = NoPanel

SpecClient == Init /\ [][ClientNext]_vars

SpecExport == Init /\ [][ExportNext]_vars

SpecEncode == Init /\ [][EncodeNext]_vars

SpecSubjects == Init /\ [][SubjectsNext]_vars

SpecLanguages == Init /\ [][LanguagesNext]_vars

SpecBox == Init /\ [][BoxNext]_vars

SpecCli == Init /\ [][CliNext]_vars

SpecSeries == Init /\ [][SeriesNext]_vars

SpecPanel == Init /\ [][PanelNext]_vars

SpecForms == Init /\ [][FormsNext]_vars

SpecComponents == Init /\ [][ComponentsNext]_vars

\* The scheduler runs every message a component has sent itself.
SpecFormsFair ==
    /\ SpecForms
    /\ WF_vars(FormsSubjects(SubjectsQueuedMessage))
    /\ WF_vars(FormsLanguages(LanguagesQueuedMessage))

(***************************************************************************)
(* Claims about the client                                                 *)
(***************************************************************************)

ErrorResults == {"EntityNotFound", "RequestError"}

\* Transient failures: server errors, 408 and 429, connection failures and timeouts.
TransientOutcomes == {"5xx", "408_429", "connect_or_timeout"}

\* Outcomes that are not retried: success, other client errors, other send errors.
NonRetriedOutcomes == {"2xx", "4xx", "other_error"}

IsDone(c) == calls[c].pc = "done"

\* The call has been handed the outcome of its last attempt and sends nothing more.
Returned(c) == calls[c].pc \in {"json", "done"}

\* C1 (as claimed): no client call ever sends more than the retry ceiling of 5
\* HTTP attempts.
C1_AttemptsAtMostCeiling ==
    \A c \in Calls : calls[c].sent <= MAX_REQUEST_RETRIES

\* C1 (amended): a client call sends at most one initial attempt plus
\* MAX_REQUEST_RETRIES retries, 6 attempts in all, and never retries more than
\* MAX_REQUEST_RETRIES times.
C1_AttemptsAtMostCeilingPlusOne ==
    \A c \in Calls :
        /\ calls[c].sent <= MAX_REQUEST_RETRIES + 1
        /\ calls[c].n_past_retries <= MAX_REQUEST_RETRIES

C1_Witness ==
    \E c \in Calls :
        /\ IsDone(c)
        /\ calls[c].sent = MAX_REQUEST_RETRIES + 1
        /\ calls[c].n_past_retries = MAX_REQUEST_RETRIES

\* C2: after k transient failures in a row, k below the retry ceiling, the call is
\* still trying (it has not given up), and when the next attempt is answered with a
\* successful response carrying data the call returns Ok.
C2_TransientThenSuccessIsOk ==
    \A c \in Calls :
        /\ (/\ calls[c].received >= 1
            /\ calls[c].last \in TransientOutcomes
            /\ calls[c].received < MAX_REQUEST_RETRIES)
                => calls[c].pc \in {"send", "in_flight"}
        /\ (/\ IsDone(c)
            /\ calls[c].last = "2xx"
            /\ calls[c].body = "data"
            /\ calls[c].n_past_retries < MAX_REQUEST_RETRIES)
                => calls[c].result = "Ok"

C2_Witness ==
    \E c \in Calls :
        /\ IsDone(c)
        /\ calls[c].n_past_retries = 2
        /\ calls[c].sent = 3
        /\ calls[c].last = "2xx"
        /\ calls[c].result = "Ok"

\* C3 (as claimed): once a client-error response has been received, or a body has
\* failed to decode, no further attempt is sent and the call does not return Ok.
C3_NonTransientEndsCall ==
    \A c \in Calls :
        /\ calls[c].last \in {"4xx", "408_429"}
                => Returned(c) /\ calls[c].result # "Ok"
        /\ calls[c].body = "undecodable"
                => IsDone(c) /\ calls[c].result # "Ok"

\* C3 (amended): an outcome the middleware does not class as transient (a success
\* status, a client error other than 408 and 429, a send error other than a
\* connection failure or timeout) is never followed by another attempt; 408 and 429
\* are retried like 5xx. The returned response's status is not inspected: the call
\* ends in an error, never Ok, when the outcome was a send error or the body cannot
\* be decoded or carries no data.
C3_NonRetryableEndsCall ==
    \A c \in Calls :
        /\ (calls[c].received >= 1 /\ calls[c].last \in NonRetriedOutcomes)
                => Returned(c) /\ calls[c].sent = calls[c].received
        /\ (IsDone(c) /\ (calls[c].last \in SendErrors
                          \/ calls[c].body \in {"undecodable", "no_data"}))
                => calls[c].result \in ErrorResults
        /\ calls[c].body = "undecodable"
                => IsDone(c) /\ calls[c].result = "RequestError"

C3_Witness ==
    \E c \in Calls :
        /\ IsDone(c)
        /\ calls[c].last = "4xx"
        /\ calls[c].sent = 1
        /\ calls[c].body = "undecodable"
        /\ calls[c].result = "RequestError"

\* C4: get_work whose decoded response carries no data returns EntityNotFound,
\* whatever QueryParameters were requested, and sends nothing after that response.
C4_GetWorkNoDataIsNotFound ==
    \A c \in Calls :
        (calls[c].request.method = "get_work" /\ calls[c].body = "no_data")
            => /\ IsDone(c)
               /\ calls[c].result = "EntityNotFound"
               /\ calls[c].sent = calls[c].received

C4_Witness ==
    \E c \in Calls, d \in Calls :
        /\ IsDone(c) /\ IsDone(d)
        /\ calls[c].request.method = "get_work"
        /\ calls[d].request.method = "get_work"
        /\ calls[c].request.parameters = "none"
        /\ calls[d].request.parameters = "with_all"
        /\ calls[c].body = "no_data" /\ calls[d].body = "no_data"
        /\ calls[c].result = "EntityNotFound"
        /\ calls[d].result = "EntityNotFound"

\* C5 (as claimed): a call whose every attempt failed with a transient error ends
\* in an error, never in Ok.
C5_PersistentTransientIsError ==
    \A c \in Calls :
        (IsDone(c) /\ calls[c].last \in TransientOutcomes)
            => calls[c].result \in ErrorResults

\* What a call returns when it runs alone and its attempts end as this call's did.
ResultAlone(c) ==
    IF calls[c].last \in SendErrors
    THEN "RequestError"
    ELSE CASE calls[c].body = "undecodable" -> "RequestError"
           [] calls[c].body = "no_data" -> "EntityNotFound"
           [] calls[c].body = "data_empty"
                /\ calls[c].request.method = "get_works_last_updated" -> "EntityNotFound"
           [] OTHER -> "Ok"

\* C6: concurrent calls are not coalesced and do not interfere: each call sends one
\* request of its own per outcome it receives, retries on its own budget (a
\* transient failure is retried until this call has retried MAX_REQUEST_RETRIES
\* times, whatever the other call did), returns what it would return alone, and the
\* client's shared state is never modified.
C6_ConcurrentCallsIndependent ==
    /\ client = NewClient("http://localhost:8000/graphql")
    /\ \A c \in Calls :
        /\ calls[c].sent = calls[c].received + (IF calls[c].pc = "in_flight" THEN 1 ELSE 0)
        /\ (calls[c].received >= 1 /\ calls[c].last \in TransientOutcomes
            /\ calls[c].received <= MAX_REQUEST_RETRIES)
                => calls[c].pc \in {"send", "in_flight"}
        /\ IsDone(c) => calls[c].result = ResultAlone(c)

C6_Witness ==
    /\ \A c \in Calls :
        /\ IsDone(c)
        /\ calls[c].request.method = "get_work"
        /\ calls[c].request.work_id = "w1"
    /\ calls["call_a"].n_past_retries = MAX_REQUEST_RETRIES
    /\ calls["call_a"].result = "Ok"
    /\ calls["call_b"].n_past_retries = 1
    /\ calls["call_b"].result = "RequestError"

(***************************************************************************)
(* Claims about the export links and the export pipeline                   *)
(***************************************************************************)

RanStages == [i \in DOMAIN export.ran |-> export.ran[i].stage]

IsPrefix(s, t) == Len(s) <= Len(t) /\ \A i \in DOMAIN s : s[i] = t[i]

IsRegistered(family, dialect) ==
    \E i \in DOMAIN Registry :
        Registry[i].family = family /\ Registry[i].dialect = dialect

\* C7: the coordinator runs Resolver, then Registry lookup, then Encoder and stops
\* at the first failure: no stage runs after a failed one, and a request for a work
\* the upstream does not have ends in NotFound after the Resolver alone, whatever
\* dialect it names.
C7_ResolverRegistryEncoder ==
    /\ IsPrefix(RanStages, <<"Resolver", "Registry", "Encoder">>)
    /\ \A i \in DOMAIN export.ran :
        StageFailed(export.ran[i].answer) => i = Len(export.ran) /\ export.pc = "done"
    /\ (export.absent /\ export.pc = "done")
        => export.result.kind = "NotFound" /\ RanStages = <<"Resolver">>
    /\ (export.absent /\ export.pc = "running") => export.ran = <<>>

C7_Witness ==
    /\ export.pc = "done"
    /\ export.absent
    /\ ~IsRegistered(export.request.family, export.request.dialect)
    /\ export.result.kind = "NotFound"

\* The 16 export specifications C8 lists.
C8_Specifications ==
    {<<"marc21record", "thoth">>, <<"marc21markup", "thoth">>, <<"marc21xml", "thoth">>,
     <<"onix_3.0", "thoth">>, <<"onix_3.0", "project_muse">>, <<"onix_3.0", "oapen">>,
     <<"onix_3.0", "jstor">>, <<"onix_3.0", "google_books">>, <<"onix_3.0", "overdrive">>,
     <<"onix_2.1", "ebsco_host">>, <<"onix_2.1", "proquest_ebrary">>,
     <<"csv", "thoth">>, <<"json", "thoth">>, <<"kbart", "oclc">>,
     <<"bibtex", "thoth">>, <<"doideposit", "crossref">>}

\* C8: the 16 endpoint URLs rendered for a work are pairwise distinct, and they are
\* exactly {THOTH_EXPORT_API}/specifications/{family}::{dialect}/work/{work_id} for
\* the 16 listed (family, dialect) keys and the work's own work_id.
C8_EndpointsDistinct ==
    shown.work_id # "-" =>
        /\ Len(shown.links) = 16
        /\ \A i, j \in DOMAIN shown.links : i # j => shown.links[i] # shown.links[j]
        /\ {shown.links[i] : i \in DOMAIN shown.links}
            = {THOTH_EXPORT_API \o "/specifications/" \o p[1] \o "::" \o p[2]
                    \o "/work/" \o shown.work_id : p \in C8_Specifications}

C8_Witness ==
    /\ shown.work_id = "w2"
    /\ Len(shown.links) = 16
    /\ shown.links[4] = "http://localhost:8181/specifications/onix_3.0::jstor/work/w2"

C18_DroppedCallSendsNothing ==
    \A c \in Calls :
        calls[c].dropped =>
            /\ calls[c].sent = calls[c].sent_at_drop
            /\ calls[c].pc # "done"
            /\ calls[c].result = "-"
            /\ calls[c].body = "-"

C18_Witness ==
    \E c \in Calls :
        /\ calls[c].dropped
        /\ calls[c].pc = "in_flight"
        /\ calls[c].n_past_retries = 2
        /\ calls[c].last \in TransientOutcomes

(***************************************************************************)
(* Claims about the encoders                                               *)
(***************************************************************************)

\* The ordinals of the Contributions a payload lists, in the order it lists them.
ListedOrdinals(bytes) ==
    LET listed == SelectSeq(bytes, LAMBDA t : t.tag = "contribution")
    IN [i \in DOMAIN listed |-> listed[i].ordinal]

\* C11: when the aggregate lacks fields of the dialect's mandatory set, encoding
\* yields ValidationFailed naming exactly the missing fields and no output byte;
\* rights-deposit without a publication date names exactly publication_date.
C11_ValidationNamesMissingFields ==
    encoding.pc = "encoded" =>
        LET M == IF encoding.descriptor.family = "doideposit"
                 THEN {"work_id", "doi", "author", "publication_date"}
                 ELSE {"work_id", "title"}
            has == encoding.aggregate.fields
                    \cup (IF \E i \in DOMAIN encoding.aggregate.contributions :
                                encoding.aggregate.contributions[i].ordinal % 2 = 1
                          THEN {"author"} ELSE {})
        IN /\ (M \ has # {}) =>
                /\ encoding.output.kind = "ValidationFailed"
                /\ encoding.output.missing_fields = M \ has
                /\ encoding.output.bytes = <<>>
           /\ (M \ has = {}) => encoding.output.kind = "EncodedOutput"

C11_Witness ==
    /\ encoding.pc = "encoded"
    /\ encoding.descriptor.family = "doideposit"
    /\ encoding.aggregate.fields = {"work_id", "title", "doi"}
    /\ Len(encoding.aggregate.contributions) = 1
    /\ encoding.output.kind = "ValidationFailed"
    /\ encoding.output.missing_fields = {"publication_date"}
    /\ encoding.output.bytes = <<>>

\* C12: an encoded payload lists every Contribution of the aggregate once, in
\* ascending ordinal order, whatever order the aggregate stores them in.
C12_ContributionsByOrdinal ==
    (encoding.pc = "encoded" /\ encoding.output.kind = "EncodedOutput") =>
        LET listed == ListedOrdinals(encoding.output.bytes)
            stored == encoding.aggregate.contributions
        IN /\ Len(listed) = Len(stored)
           /\ {listed[i] : i \in DOMAIN listed} = {stored[i].ordinal : i \in DOMAIN stored}
           /\ \A i, j \in DOMAIN listed : i < j => listed[i] < listed[j]

C12_Witness ==
    /\ encoding.pc = "encoded"
    /\ encoding.output.kind = "EncodedOutput"
    /\ Len(encoding.aggregate.contributions) = 3
    /\ encoding.aggregate.contributions[1].ordinal = 3
    /\ encoding.aggregate.contributions[2].ordinal = 1
    /\ ListedOrdinals(encoding.output.bytes) = <<1, 2, 3>>

(***************************************************************************)
(* Claims about the subjects form                                          *)
(***************************************************************************)

\* C13: after any ChangeOrdinal texts, the subject_ordinal the subjects
\* form holds, and the one a CreateSubject request carries, is never
\* negative.
C13_OrdinalNeverNegative ==
    /\ subjects_form.new_subject.subject_ordinal >= 0
    /\ \A p \in subjects_form.pending :
           p.kind = "create_subject" => p.variables.subject_ordinal >= 0

SameTypeAndCode(s, t) ==
    s.subject_type = t.subject_type /\ s.subject_code = t.subject_code

\* C14: every list emitted through update_subjects holds no two subjects
\* with the same subject_type and subject_code.
C14_EmittedSubjectsUnique ==
    subjects_form.last.emitted =>
        \A i, j \in DOMAIN subjects_form.subjects :
            i # j => ~SameTypeAndCode(subjects_form.subjects[i], subjects_form.subjects[j])

(***************************************************************************)
(* Claims about the languages form                                         *)
(***************************************************************************)

\* C15: every list emitted through update_languages holds at most one
\* language that is flagged main and whose relation is Original.
C15_EmittedLanguagesOneMain ==
    languages_form.last.emitted =>
        Cardinality({i \in DOMAIN languages_form.languages :
                        /\ languages_form.languages[i].main_language
                        /\ languages_form.languages[i].language_relation = "Original"}) <= 1

(***************************************************************************)
(* Claims about the catalogue box                                          *)
(***************************************************************************)

\* The licence the claim gives each Creative Commons URL.
C16_Listed ==
    { [text |-> scheme \o "://creativecommons.org/licenses/" \o kind.code \o "/"
                    \o version \o "/",
       license |-> kind.license] :
          scheme \in {"http", "https"},
          kind \in { [code |-> "by", license |-> "By"],
                     [code |-> "by-sa", license |-> "BySa"],
                     [code |-> "by-nd", license |-> "ByNd"],
                     [code |-> "by-nc", license |-> "ByNc"],
                     [code |-> "by-nc-sa", license |-> "ByNcSa"],
                     [code |-> "by-nc-nd", license |-> "ByNcNd"] },
          version \in {"1.0", "2.0", "2.5", "3.0", "4.0"} }
    \cup { [text |-> scheme \o "://creativecommons.org/publicdomain/zero/1.0/",
            license |-> "Zero"] : scheme \in {"http", "https"} }

C16_Expected(text) ==
    IF \E l \in C16_Listed : l.text = text
    THEN (CHOOSE l \in C16_Listed : l.text = text).license
    ELSE "Undefined"

\* C16: License::from_str returns Ok for every input; a listed Creative
\* Commons URL gives its licence, under http and https and in every listed
\* version, and every other text, the empty one included, gives Undefined;
\* license_icons does not panic and shows no icon for Undefined.
C16_LicenseParsedAndShown ==
    box.pc \in {"icons", "rendered"} =>
        LET text == IF box.work.license = <<>> THEN "" ELSE box.work.license[1]
            parsed == from_str(text)
        IN  /\ parsed.ok
            /\ parsed.value = C16_Expected(text)
            /\ ~box.license_icons.panicked
            /\ (C16_Expected(text) = "Undefined") = (box.license_icons.icons = <<>>)

C16_Witness ==
    /\ box.pc = "rendered"
    /\ box.work.license = <<"https://creativecommons.org/licenses/by-nc-nd/2.5/">>
    /\ box.license_icons = [panicked |-> FALSE,
                            icons |-> <<"creative-commons", "by", "nc", "nd">>]

C17_Tagged ==
    { "Cancelled", "Forthcoming", "PostponedIndefinitely", "OutOfPrint", "Inactive",
      "WithdrawnFromSale", "Recalled" }

C17_Untagged ==
    { "Unspecified", "Active", "NoLongerOurProduct", "OutOfStockIndefinitely", "Unknown",
      "Remaindered" }

\* C17: status_tag is defined for each of the thirteen work statuses; it
\* renders a tag for Cancelled, Forthcoming, PostponedIndefinitely,
\* OutOfPrint, Inactive, WithdrawnFromSale and Recalled, and nothing for
\* the six others.
C17_StatusTagForSeven ==
    box.pc = "rendered" =>
        /\ box.work.work_status \in C17_Tagged => Len(box.status_tag) = 1
        /\ box.work.work_status \in C17_Untagged => box.status_tag = <<>>
        /\ box.work.work_status \in C17_Tagged \cup C17_Untagged

C17_Witness ==
    /\ box.pc = "rendered"
    /\ box.work.work_status = "WithdrawnFromSale"
    /\ box.status_tag = <<[class |-> "is-danger", text |-> "Withdrawn"]>>

(***************************************************************************)
(* Claims about the thoth binary                                           *)
(***************************************************************************)

\* C19: in the command matched, no two arguments share a name, a short flag
\* or a long flag, and every argument main has read with unwrap is declared
\* for that command.
C19_CommandLineConsistent ==
    LET args == cli.command.args IN
    /\ \A i, j \in DOMAIN args :
           i # j => /\ args[i].name # args[j].name
                    /\ args[i].short # args[j].short
                    /\ args[i].long # args[j].long
    /\ \A r \in DOMAIN cli.read : \E i \in DOMAIN args : args[i].name = cli.read[r]

C19_Witness ==
    /\ cli.pc = "returned"
    /\ cli.command.path = <<"start", "export-api">>
    /\ cli.read = <<"host", "port", "threads", "keep-alive", "export-url", "gql-endpoint">>

\* C20: under init the API server is called only after run_migrations, and
\* only when the migrations succeeded; when they fail main returns their
\* error and api_server is not called.
C20_InitMigratesBeforeServing ==
    cli.command.path = <<"init">> =>
        /\ (\E i \in DOMAIN cli.called : cli.called[i] = "api_server") =>
               /\ cli.called = <<"run_migrations", "api_server">>
               /\ cli.migrations = "Ok"
        /\ cli.migrations = "Err" =>
               /\ cli.pc = "returned"
               /\ cli.result = "Err"
               /\ cli.called = <<"run_migrations">>

C20_Witness ==
    /\ cli.command.path = <<"init">>
    /\ cli.pc = "returned"
    /\ cli.migrations = "Err"
    /\ cli.result = "Err"
    /\ cli.called = <<"run_migrations">>

----------------------------------------------------------------------------
(* Claims about the series component                                        *)

\* C21: when the fetch of the series completes successfully, the component
\* pushes the route Dashboard if the current user is restricted to a set of
\* publishers that does not hold the publisher of the series it stored (the
\* default series when the response held none), and pushes no route for an
\* unrestricted user or when the publisher is in the set.
C21_RedirectOutsidePublishers ==
    [][(series.fetch_series.state # "Fetched" /\ series'.fetch_series.state = "Fetched") =>
           LET publishers == series'.current_user.resource_access.restricted_to IN
           series'.last.pushed =
               IF /\ publishers # <<>>
                  /\ series'.series.publisher_id \notin publishers[1]
               THEN <<"Dashboard">> ELSE <<>>]_vars

\* A user restricted to p1 was sent to the dashboard because the response
\* held no series.
C21_Witness ==
    /\ series.fetch_series.state = "Fetched"
    /\ series.current_user.resource_access.restricted_to = <<{"p1"}>>
    /\ series.series = DefaultSeries
    /\ series.last.pushed = <<"Dashboard">>

\* C22: whatever the props change to, changed() leaves the stored
\* resource_access equal to that of the current user, sends GetImprints
\* exactly when the stored value differed from the new one, and does not
\* ask for a render; the stored value equals the props' in every state.
C22_ChangedTracksPermissions ==
    /\ series.resource_access = series.current_user.resource_access
    /\ \A resource_access \in AccountAccesses :
           LET h == changed([series EXCEPT
                                !.current_user.resource_access = resource_access])
           IN  /\ h.component.resource_access = resource_access
               /\ h.sent = IF series.resource_access # resource_access
                           THEN <<Msg("GetImprints", "-")>> ELSE <<>>
               /\ ~h.render

\* The props changed to a restricted user after the first imprints were
\* fetched: GetImprints is queued again.
C22_Witness ==
    /\ series.queue = <<Msg("GetImprints", "-")>>
    /\ series.fetch_imprints.state = "Fetched"
    /\ series.resource_access.restricted_to = <<{"p1"}>>
    /\ ~series.last.render

----------------------------------------------------------------------------
(* Claims about the handlers of the two forms                               *)

\* The i32 each ordinal text of the model stands for, 0 for a text that is
\* not one.
C23_Expected(ordinal) ==
    CASE ordinal = <<"1">> -> 1
      [] ordinal = <<"+", "1">> -> 1
      [] ordinal = <<"-", "1">> -> 0 - 1
      [] OTHER -> 0

\* C23: for every text, ChangeOrdinal returns false, sets the ordinal of
\* new_subject to the text parsed as an i32, or to 0 when it does not
\* parse, and leaves the type and the code of new_subject, show_add_form,
\* the three fetch states and the list of subjects as they were; it sends,
\* emits and notifies nothing.
C23_ChangeOrdinalOnlySetsOrdinal ==
    \A ordinal \in OrdinalTexts :
        LET h == subjects_update(subjects_form, Msg("ChangeOrdinal", ordinal)) IN
        /\ ~h.render
        /\ h.form = [subjects_form EXCEPT
                         !.new_subject.subject_ordinal = C23_Expected(ordinal)]
        /\ h.sent = <<>> /\ h.started = {} /\ h.emit = <<>> /\ ~h.notified

\* The form is open with a type and a code chosen, and the last message
\* set the ordinal without a render.
C23_Witness ==
    /\ subjects_form.show_add_form
    /\ subjects_form.new_subject.subject_ordinal = 1
    /\ subjects_form.new_subject.subject_code = <<"A">>
    /\ subjects_form.new_subject.subject_type = "Bic"
    /\ subjects_form.queue = <<>>
    /\ subjects_form.last = NoEffect

----------------------------------------------------------------------------
(* Claims about the displayed subjects                                      *)

\* C24: the subjects displayed are the subjects of the props ordered by
\* subject type and, within a type, by ascending ordinal; subjects equal on
\* both keys keep the order they have in the props; and rendering leaves
\* the props as they were.
C24_DisplayedSortedStable ==
    [][subjects_panel'.rendered =>
          LET subjects == IF subjects_panel'.props.subjects = <<>> THEN <<>>
                          ELSE subjects_panel'.props.subjects[1]
              displayed == subjects_panel'.displayed
              rank(s) == CHOOSE i \in DOMAIN SubjectTypeOrder :
                             SubjectTypeOrder[i] = s.subject_type
          IN  /\ ~subjects_panel.rendered => subjects_panel'.props = subjects_panel.props
              /\ Len(displayed) = Len(subjects)
              /\ {displayed[i] : i \in DOMAIN displayed} = {subjects[i] : i \in DOMAIN subjects}
              /\ \A i, j \in DOMAIN displayed :
                     i < j =>
                        \/ rank(displayed[i]) < rank(displayed[j])
                        \/ /\ rank(displayed[i]) = rank(displayed[j])
                           /\ displayed[i].subject_ordinal < displayed[j].subject_ordinal
                        \/ /\ rank(displayed[i]) = rank(displayed[j])
                           /\ displayed[i].subject_ordinal = displayed[j].subject_ordinal
                           /\ displayed[i].subject_id < displayed[j].subject_id]_vars

\* Three subjects were reordered: the Bic subject given last is displayed
\* first, and the two Keyword subjects of ordinal 2 keep their order.
C24_Witness ==
    /\ subjects_panel.rendered
    /\ Len(subjects_panel.displayed) = 3
    /\ subjects_panel.displayed[1].subject_id = 3
    /\ subjects_panel.displayed[1].subject_type = "Bic"
    /\ subjects_panel.displayed[2].subject_id = 1
    /\ subjects_panel.displayed[3].subject_id = 2
    /\ subjects_panel.displayed[2].subject_ordinal = 2
    /\ subjects_panel.displayed[3].subject_ordinal = 2

----------------------------------------------------------------------------
(* Claims about the requests of the two forms                               *)

\* C25: in both forms, a create response that holds the created entity
\* makes the form emit one list, the list of the props with that entity
\* appended: the earlier entries keep their places and the list is one
\* longer.  A create response without an entity, or a failed one, emits
\* nothing and leaves the list as it was.
C25_CreateAppendsToProps ==
    [][/\ subjects_form'.created = subjects_form.created + 1 =>
              /\ subjects_form'.last.emitted
              /\ Len(subjects_form'.subjects) = Len(subjects_form.subjects) + 1
              /\ SubSeq(subjects_form'.subjects, 1, Len(subjects_form.subjects))
                     = subjects_form.subjects
              /\ subjects_form'.subjects[Len(subjects_form'.subjects)].subject_id
                     = subjects_form'.created
       /\ ( /\ subjects_form'.created = subjects_form.created
            /\ subjects_form.push_subject.state = "Fetching"
            /\ subjects_form'.push_subject.state \in {"Fetched", "Failed"} ) =>
              /\ ~subjects_form'.last.emitted
              /\ subjects_form'.subjects = subjects_form.subjects
       /\ languages_form'.created = languages_form.created + 1 =>
              /\ languages_form'.last.emitted
              /\ Len(languages_form'.languages) = Len(languages_form.languages) + 1
              /\ SubSeq(languages_form'.languages, 1, Len(languages_form.languages))
                     = languages_form.languages
              /\ languages_form'.languages[Len(languages_form'.languages)].language_id
                     = languages_form'.created
       /\ ( /\ languages_form'.created = languages_form.created
            /\ languages_form.push_language.state = "Fetching"
            /\ languages_form'.push_language.state \in {"Fetched", "Failed"} ) =>
              /\ ~languages_form'.last.emitted
              /\ languages_form'.languages = languages_form.languages]_vars

\* A language was created for a work that had one: the form has just
\* emitted the list of the two and has yet to close the add form.
C25_Witness ==
    /\ languages_form.created = 1
    /\ languages_form.push_language.state = "Fetched"
    /\ languages_form.last.emitted
    /\ Len(languages_form.languages) = 2
    /\ languages_form.languages[1].language_id = 0
    /\ languages_form.languages[2].language_id = 1
    /\ languages_form.queue = <<Msg("ToggleAddFormDisplay", FALSE)>>

\* C26: in both forms the handler of a completed create request, whatever
\* its outcome, sends ToggleAddFormDisplay(false), and notifies when the
\* request failed or returned no entity; once that message is sent the add
\* form is eventually closed (add_form_status is "modal"); and no step of a
\* delete request changes show_add_form.
C26_CreateClosesAddForm ==
    /\ [][
          /\ ( /\ subjects_form.push_subject.state = "Fetching"
               /\ subjects_form'.push_subject.state \in {"Fetched", "Failed"} ) =>
                 /\ subjects_form'.queue =
                        Append(subjects_form.queue, Msg("ToggleAddFormDisplay", FALSE))
                 /\ subjects_form'.created = subjects_form.created =>
                        subjects_form'.last.notified
          /\ ( /\ languages_form.push_language.state = "Fetching"
               /\ languages_form'.push_language.state \in {"Fetched", "Failed"} ) =>
                 /\ languages_form'.queue =
                        Append(languages_form.queue, Msg("ToggleAddFormDisplay", FALSE))
                 /\ languages_form'.created = languages_form.created =>
                        languages_form'.last.notified
          /\ ( \/ subjects_form'.delete_subject # subjects_form.delete_subject
               \/ \E p \in subjects_form'.pending \ subjects_form.pending :
                      p.kind = "delete_subject" ) =>
                 subjects_form'.show_add_form = subjects_form.show_add_form
          /\ ( \/ languages_form'.delete_language # languages_form.delete_language
               \/ \E p \in languages_form'.pending \ languages_form.pending :
                      p.kind = "delete_language" ) =>
                 languages_form'.show_add_form = languages_form.show_add_form
       ]_vars
    /\ (\E i \in DOMAIN subjects_form.queue :
            subjects_form.queue[i] = Msg("ToggleAddFormDisplay", FALSE))
           ~> (add_form_status(subjects_form) = "modal")
    /\ (\E i \in DOMAIN languages_form.queue :
            languages_form.queue[i] = Msg("ToggleAddFormDisplay", FALSE))
           ~> (add_form_status(languages_form) = "modal")

\* A create request of the subjects form failed while the add form was
\* open: the form has notified and is about to close the add form.
C26_Witness ==
    /\ subjects_form.push_subject.state = "Failed"
    /\ add_form_status(subjects_form) = "modal is-active"
    /\ subjects_form.last.notified
    /\ ~subjects_form.last.emitted
    /\ subjects_form.queue = <<Msg("ToggleAddFormDisplay", FALSE)>>

\* The entries of a list at the places kept, in the order of the list.
C27_Kept(list, kept) ==
    [k \in 1..Cardinality(kept) |->
        list[CHOOSE i \in kept : Cardinality({j \in kept : j <= i}) = k]]

\* C27: in both forms, whatever delete request is pending, a response
\* that holds the deleted entity makes the form emit the list of the props
\* without the entries of that id, the others in their order; a response
\* without an entity, or a failed one, emits nothing and notifies.
C27_DeleteFiltersProps ==
    /\ \A p \in subjects_form.pending : \A msg \in SubjectsAnswers(p) :
           p.kind = "delete_subject" =>
              LET h == subjects_update(subjects_form, msg)
                  list == subjects_form.subjects
              IN  IF msg.arg.action = "Fetched" /\ msg.arg.body # <<>>
                  THEN h.emit =
                         << C27_Kept(list, {i \in DOMAIN list :
                                list[i].subject_id # msg.arg.body[1].subject_id}) >>
                  ELSE h.emit = <<>> /\ h.notified
    /\ \A p \in languages_form.pending : \A msg \in LanguagesAnswers(p) :
           p.kind = "delete_language" =>
              LET h == languages_update(languages_form, msg)
                  list == languages_form.languages
              IN  IF msg.arg.action = "Fetched" /\ msg.arg.body # <<>>
                  THEN h.emit =
                         << C27_Kept(list, {i \in DOMAIN list :
                                list[i].language_id # msg.arg.body[1].language_id}) >>
                  ELSE h.emit = <<>> /\ h.notified

\* The subject the work had was deleted after another one was created:
\* the form has just emitted the list that holds only the created one.
C27_Witness ==
    /\ subjects_form.created = 1
    /\ subjects_form.delete_subject.state = "Fetched"
    /\ subjects_form.last.emitted
    /\ Len(subjects_form.subjects) = 1
    /\ subjects_form.subjects[1].subject_id = 1
    /\ subjects_form.pending = {}

\* The fetch actions a Set...State message may carry: Fetching, Failed, and
\* Fetched with or without one of the bodies.
C28_FetchActions(bodies) ==
    {FetchAction(a, <<>>) : a \in {"Fetching", "Fetched", "Failed"}}
    \cup {FetchAction("Fetched", <<b>>) : b \in bodies}

\* The fetch state of a component a pending request belongs to.
C28_FetchOf(component, p) ==
    CASE p.kind = "subject_types" -> component.fetch_subject_types
      [] p.kind = "create_subject" -> component.push_subject
      [] p.kind = "delete_subject" -> component.delete_subject
      [] p.kind = "language_codes" -> component.fetch_language_codes
      [] p.kind = "language_relations" -> component.fetch_language_relations
      [] p.kind = "create_language" -> component.push_language
      [] p.kind = "delete_language" -> component.delete_language
      [] p.kind = "imprints" -> component.fetch_imprints
      [] p.kind = "series_types" -> component.fetch_series_types
      [] p.kind = "series" -> component.fetch_series
      [] p.kind = "update_series" -> component.push_series
      [] p.kind = "delete_series" -> component.delete_series

\* A request whose response can be delivered has had its Fetching message
\* handled: its fetch state is no longer NotFetching.
C28_AnnouncedBeforeAnswered ==
    /\ subjects_form.queue = <<>> =>
           \A p \in subjects_form.pending :
               C28_FetchOf(subjects_form, p).state # "NotFetching"
    /\ languages_form.queue = <<>> =>
           \A p \in languages_form.pending :
               C28_FetchOf(languages_form, p).state # "NotFetching"
    /\ series.queue = <<>> =>
           \A p \in series.pending : C28_FetchOf(series, p).state # "NotFetching"

\* A handler emits or notifies only with its own fetch state Fetched or
\* Failed, and the handlers that issue a request do neither.
C28_FormEffectsWhenCompleted ==
    /\ \A fa \in C28_FetchActions({DefaultSubject}) :
           LET hp == SetSubjectPushState(subjects_form, fa)
               hd == SetSubjectDeleteState(subjects_form, fa)
               ht == SetSubjectTypesFetchState(subjects_form, fa)
           IN  /\ (hp.emit # <<>> \/ hp.notified) =>
                      hp.form.push_subject.state \in {"Fetched", "Failed"}
               /\ (hd.emit # <<>> \/ hd.notified) =>
                      hd.form.delete_subject.state \in {"Fetched", "Failed"}
               /\ ht.emit = <<>> /\ ~ht.notified
    /\ \A h \in {CreateSubject(subjects_form), DeleteSubject(subjects_form, 0),
                  GetSubjectTypes(subjects_form)} :
           h.emit = <<>> /\ ~h.notified
    /\ \A fa \in C28_FetchActions({DefaultLanguage}) :
           LET hp == SetLanguagePushState(languages_form, fa)
               hd == SetLanguageDeleteState(languages_form, fa)
               hc == SetLanguageCodesFetchState(languages_form, fa)
               hr == SetLanguageRelationsFetchState(languages_form, fa)
           IN  /\ (hp.emit # <<>> \/ hp.notified) =>
                      hp.form.push_language.state \in {"Fetched", "Failed"}
               /\ (hd.emit # <<>> \/ hd.notified) =>
                      hd.form.delete_language.state \in {"Fetched", "Failed"}
               /\ hc.emit = <<>> /\ ~hc.notified
               /\ hr.emit = <<>> /\ ~hr.notified
    /\ \A h \in {CreateLanguage(languages_form), DeleteLanguage(languages_form, 0),
                  GetLanguageCodes(languages_form), GetLanguageRelations(languages_form)} :
           h.emit = <<>> /\ ~h.notified

\* The series component notifies or navigates only with the fetch state of
\* the handler Fetched or Failed, and the handlers that issue a request do
\* neither.
C28_SeriesEffectsWhenCompleted ==
    /\ \A fa \in C28_FetchActions(StoredSeries) :
           LET hf == SetSeriesFetchState(series, fa)
               hp == SetSeriesPushState(series, fa)
               hd == SetSeriesDeleteState(series, fa)
               hi == SetImprintsFetchState(series, fa)
               ht == SetSeriesTypesFetchState(series, fa)
           IN  /\ (hf.pushed # <<>> \/ hf.notified # "-") =>
                      hf.component.fetch_series.state \in {"Fetched", "Failed"}
               /\ (hp.pushed # <<>> \/ hp.notified # "-") =>
                      hp.component.push_series.state \in {"Fetched", "Failed"}
               /\ (hd.pushed # <<>> \/ hd.notified # "-") =>
                      hd.component.delete_series.state \in {"Fetched", "Failed"}
               /\ hi.pushed = <<>> /\ hi.notified = "-"
               /\ ht.pushed = <<>> /\ ht.notified = "-"
    /\ \A h \in {GetSeries(series), GetImprints(series), GetSeriesTypes(series),
                  UpdateSeries(series), DeleteSeries(series)} :
           h.pushed = <<>> /\ h.notified = "-"

\* No fetch state of a component goes from NotFetching to Fetched or Failed
\* in one step.
C28_FetchingInBetween ==
    /\ \A field \in {"fetch_subject_types", "push_subject", "delete_subject"} :
           subjects_form[field].state = "NotFetching" =>
               subjects_form'[field].state \in {"NotFetching", "Fetching"}
    /\ \A field \in {"fetch_language_codes", "fetch_language_relations",
                      "push_language", "delete_language"} :
           languages_form[field].state = "NotFetching" =>
               languages_form'[field].state \in {"NotFetching", "Fetching"}
    /\ \A field \in {"fetch_imprints", "fetch_series_types", "fetch_series",
                      "push_series", "delete_series"} :
           series[field].state = "NotFetching" =>
               series'[field].state \in {"NotFetching", "Fetching"}

\* C28: in the two forms and the series component, the fetch state of a
\* request becomes Fetching before it becomes Fetched or Failed: the
\* Fetching message its handler sent is handled before the response can be
\* delivered, no fetch state leaves NotFetching for Fetched or Failed, and
\* a handler emits, notifies or navigates only with its fetch state Fetched
\* or Failed.
C28_FetchingBeforeResponse ==
    /\ [](C28_AnnouncedBeforeAnswered /\ C28_FormEffectsWhenCompleted
             /\ C28_SeriesEffectsWhenCompleted)
    /\ [][C28_FetchingInBetween]_vars

\* The series was deleted: its delete state went through Fetching to
\* Fetched, and the component has notified and pushed the list of series.
C28_Witness ==
    /\ series.delete_series.state = "Fetched"
    /\ series.last.notified = "Success"
    /\ series.last.pushed = <<"Serieses">>
    /\ series.pending = {}

====
